---- MODULE Spec2Model ----
(***************************************************************************)
(* A model of the BusTub storage core.                                     *)
(*                                                                         *)
(* Part 1: one BufferPoolManagerInstance with its LRUReplacer and the     *)
(* disk pages it reads and writes.  Every BufferPoolManagerInstance        *)
(* operation runs under latch_, so each operation is one atomic action.    *)
(* An operation is an operator from the current state to a record: what    *)
(* the call returns (ok, frame_id, page_id) and the state it leaves.       *)
(*                                                                         *)
(* Part 2: the ParallelBufferPoolManager over K instances.                 *)
(*                                                                         *)
(* Part 3: the ExtendibleHashTable: its directory page and bucket pages,   *)
(* called by one thread.                                                   *)
(*                                                                         *)
(* Part 4: the LockManager with the transactions that call it, one thread  *)
(* per transaction.                                                        *)
(*                                                                         *)
(* Part 5: an LRUReplacer on its own, called with any frame ids.           *)
(*                                                                         *)
(* Part 6: the ExtendibleHashTable called by several threads at once.      *)
(***************************************************************************)
EXTENDS Integers, Sequences, FiniteSets, Bags, TLC

(***************************************************************************)
(* Bounds of the model.                                                    *)
(***************************************************************************)
MaxPoolSize == 2     \* pool_size ranges over 1..MaxPoolSize
MaxInstances == 2    \* num_instances ranges over 1..MaxInstances
MaxPageId == 3       \* page ids range over 0..MaxPageId
MaxPin == 2          \* a page is fetched while its pin count is below MaxPin
MaxData == 1         \* page contents range over 0..MaxData (0 = zeroed memory)
DataPoolSize == 1    \* SpecData: pool_size ranges over 1..DataPoolSize
DataMaxPageId == 1   \* SpecData: page ids range over 0..DataMaxPageId
MaxParInstances == 3 \* SpecPar: num_instances ranges over 1..MaxParInstances
ParPoolSize == 1     \* SpecPar: pool_size of every instance
MaxParPageId == 5    \* SpecPar: page ids range over 0..MaxParPageId
MaxBucketSize == 2   \* SpecHt: BUCKET_ARRAY_SIZE ranges over 1..MaxBucketSize
MaxKey == 1          \* SpecHt: keys range over 0..MaxKey
MaxValue == 1        \* SpecHt: values range over 0..MaxValue
MaxHtCalls == 4      \* SpecHt: a run makes up to MaxHtCalls insert and remove calls
MaxS3Calls == 5      \* SpecS3: a run makes up to MaxS3Calls insert and remove calls
MaxTxn == 2          \* SpecLm: txn ids range over 1..MaxTxn
MaxRid == 1          \* SpecLm: rids range over 1..MaxRid
MaxLmCalls == 4      \* SpecLm: a run makes up to MaxLmCalls lock manager calls
MaxWoundTxn == 2     \* SpecLmWound: txn ids range over 1..MaxWoundTxn
MaxWoundRid == 2     \* SpecLmWound: rids range over 1..MaxWoundRid
MaxWoundCalls == 4   \* SpecLmWound: a run makes up to MaxWoundCalls lock manager calls
MaxExecTxn == 2      \* SpecExec: txn ids range over 1..MaxExecTxn
MaxExecRid == 2      \* SpecExec: rids range over 1..MaxExecRid
MaxExecCalls == 3    \* SpecExec: the executors take up MaxExecCalls tuples at most
MaxFairTxn == 2      \* SpecLmFair: txn ids range over 1..MaxFairTxn
MaxFairCalls == 3    \* SpecLmFair: a run makes up to MaxFairCalls lock manager calls
MaxRepCapacity == 2  \* SpecRep: the replacer's capacity ranges over 1..MaxRepCapacity
MaxRepId == 2        \* SpecRep: frame ids range over 0..MaxRepId
MaxRepCalls == 5     \* SpecRep: a run makes up to MaxRepCalls replacer calls
MaxHtThread == 2     \* SpecHtConc: threads 1..MaxHtThread call the table at once
MaxConcKey == 2      \* SpecHtConc: keys range over 0..MaxConcKey, each key its own value
MaxConcCalls == 5    \* SpecHtConc: a run makes up to MaxConcCalls calls

INVALID_PAGE_ID == -1
NoFrame == -1

PageIds == 0..MaxPageId
Data == 0..MaxData

VARIABLES
    pool_size,        \* pool_size_
    num_instances,    \* num_instances_
    instance_index,   \* instance_index_
    pages,            \* pages_[frame]: page_id_, pin_count_, is_dirty_, data_
    page_table,       \* page_table_: page id -> frame id
    free_list,        \* free_list_
    lru_list,         \* LRUReplacer::lru_list_ (front = index 1); hashmap_ has the same members
    next_page_id,     \* next_page_id_
    disk,             \* the disk manager's pages
    returned,         \* page ids handed out by NewPgImp so far
    expect,           \* per page id: the last bytes written under the unpin(dirty) contract
    unsaved,          \* per page id: written, the writer's unpin(dirty=true) still due
    s1                \* progress of the run through scenario S1

\* The ParallelBufferPoolManager.
VARIABLES
    bpm_instances,    \* bpm_instances_[i]: the state of instance i (no page contents)
    next_instance,    \* next_instance_
    par_calls,        \* number of NewPgImp calls made on the parallel pool so far
    par_clean         \* no NewPgImp call so far found an instance with all frames pinned

bpiVars == <<pool_size, num_instances, instance_index, pages, page_table, free_list,
             lru_list, next_page_id, disk, returned, expect, unsaved, s1>>

parVars == <<bpm_instances, next_instance, par_calls, par_clean>>

\* The ExtendibleHashTable.
VARIABLES
    bucket_array_size,  \* BUCKET_ARRAY_SIZE
    dir_page,           \* the directory page: global_depth_, local_depths_, bucket_page_ids_
    bucket_pages,       \* the bucket pages: page id -> slots (readable_, array_)
    live,               \* pairs whose insert returned true, not removed since
    ht_calls,           \* number of insert and remove calls made so far
    s3,                 \* progress of the run through scenario S3
    table_latch,        \* table_latch_: the number of readers, whether a writer is in
    ht_thread,          \* the calls under way when threads call at once (a bag)
    ht_pins             \* the pool's pin_count_ of the index pages; whether every
                        \* UnpinPage and DeletePage of the index returned true

htVars == <<bucket_array_size, dir_page, bucket_pages, live, ht_calls, s3,
            table_latch, ht_thread, ht_pins>>

\* The LockManager and the transactions.
VARIABLES
    lock_table,         \* lock_table_[rid].request_queue_: txn_id_, lock_mode_, granted_
    txn_state,          \* Transaction::state_ per txn id
    isolation_level,    \* Transaction::isolation_level_ per txn id
    shared_lock_set,    \* Transaction::shared_lock_set_ per txn id
    exclusive_lock_set, \* Transaction::exclusive_lock_set_ per txn id
    thread,             \* per txn id: where its thread stands in a lock call
    lm_ret,             \* per txn id: what its last lock manager call returned
    shrunk,             \* the transactions that have been SHRINKING
    lm_calls            \* number of lock manager calls the run may still make

lmVars == <<lock_table, txn_state, isolation_level, shared_lock_set,
            exclusive_lock_set, thread, lm_ret, shrunk, lm_calls>>

\* An LRUReplacer on its own.
VARIABLES
    rep_capacity,       \* capacitiy_
    rep_list,           \* lru_list_ (front = index 1)
    rep_stamp,          \* per frame id: the number of the Unpin call that inserted it last
    rep_removed,        \* ids taken out by Pin or Victim and not inserted since
    rep_calls           \* number of replacer calls made so far

repVars == <<rep_capacity, rep_list, rep_stamp, rep_removed, rep_calls>>

\* The executors of the transactions and the table they work on.
VARIABLES
    table_heap,         \* per rid: the tuple slot of the table heap
    index_entries,      \* the rids that have an entry in the table's indexes
    executor,           \* per txn id: where its executor stands in Next
    ex_calls            \* number of tuples the executors have taken up so far

exVars == <<table_heap, index_entries, executor, ex_calls>>

vars == <<bpiVars, parVars, htVars, lmVars, repVars, exVars>>

\* No executor has been constructed.
NoExecutor ==
    /\ table_heap = <<>>
    /\ index_entries = {}
    /\ executor = <<>>
    /\ ex_calls = 0

\* No LRUReplacer on its own has been constructed.
NoReplacer ==
    /\ rep_capacity = 0
    /\ rep_list = <<>>
    /\ rep_stamp = <<>>
    /\ rep_removed = {}
    /\ rep_calls = 0

\* No LockManager has been constructed.
NoLockManager ==
    /\ lock_table = <<>>
    /\ txn_state = <<>>
    /\ isolation_level = <<>>
    /\ shared_lock_set = <<>>
    /\ exclusive_lock_set = <<>>
    /\ thread = <<>>
    /\ lm_ret = <<>>
    /\ shrunk = {}
    /\ lm_calls = 0

\* No ParallelBufferPoolManager has been constructed.
NoParallelPool ==
    /\ bpm_instances = <<>>
    /\ next_instance = 0
    /\ par_calls = 0
    /\ par_clean = TRUE

\* No ExtendibleHashTable has been constructed.
NoHashTable ==
    /\ bucket_array_size = 0
    /\ dir_page = <<>>
    /\ bucket_pages = <<>>
    /\ live = {}
    /\ ht_calls = 0
    /\ s3 = 0
    /\ table_latch = [readers |-> 0, writer |-> FALSE]
    /\ ht_thread = <<>>
    /\ ht_pins = <<>>

Frames == 0..(pool_size - 1)

\* expect[p] = Unknown: nothing is promised about the bytes of p
Unknown == MaxData + 1

(***************************************************************************)
(* Helpers on sequences and maps.                                          *)
(***************************************************************************)
InSeq(s, x) == \E i \in 1..Len(s) : s[i] = x

Count(s, x) == Cardinality({i \in 1..Len(s) : s[i] = x})

\* std::unordered_map::erase(key)
Erase(m, k) == [x \in (DOMAIN m) \ {k} |-> m[x]]

\* std::unordered_map::operator[](key) = value
Put(m, k, v) == [x \in (DOMAIN m) \cup {k} |-> IF x = k THEN v ELSE m[x]]

(***************************************************************************)
(* LRUReplacer.                                                            *)
(***************************************************************************)
Victim(lru) ==
    IF lru = <<>>
    THEN [ok |-> FALSE, frame_id |-> NoFrame, lru_list |-> lru]
    ELSE [ok |-> TRUE, frame_id |-> lru[Len(lru)],
          lru_list |-> SubSeq(lru, 1, Len(lru) - 1)]

Pin(lru, frame_id) ==
    IF ~InSeq(lru, frame_id)
    THEN lru
    ELSE SelectSeq(lru, LAMBDA x : x # frame_id)

\* Faulty variant of Unpin: an id that is tracked already moves to the front.
Unpin_Refreshes(lru, frame_id, capacity) ==
    IF InSeq(lru, frame_id)
    THEN <<frame_id>> \o SelectSeq(lru, LAMBDA x : x # frame_id)
    ELSE IF Len(lru) < capacity
         THEN <<frame_id>> \o lru
         ELSE <<frame_id>> \o SubSeq(lru, 1, Len(lru) - 1)

Unpin(lru, frame_id, capacity) ==
    IF InSeq(lru, frame_id)
    THEN lru
    ELSE IF Len(lru) < capacity
         THEN <<frame_id>> \o lru
         ELSE <<frame_id>> \o SubSeq(lru, 1, Len(lru) - 1)

(***************************************************************************)
(* BufferPoolManagerInstance.                                              *)
(***************************************************************************)
\* The current state, as the result of a call that returns true and changes
\* nothing.  from: where a frame was taken ("table", "free", "lru");
\* evicted: the page id the victim frame held.
Now ==
    [ok |-> TRUE, frame_id |-> NoFrame, page_id |-> INVALID_PAGE_ID,
     from |-> "none", evicted |-> INVALID_PAGE_ID,
     pages |-> pages, page_table |-> page_table, free_list |-> free_list,
     lru_list |-> lru_list, next_page_id |-> next_page_id, disk |-> disk]

\* Faulty variant of AllocatePage: the next id is advanced by one, not by num_instances_.
AllocatePage_PlusOne(next, n_instances) ==
    [page_id |-> next, next_page_id |-> next + 1]

AllocatePage(next, n_instances) ==
    [page_id |-> next, next_page_id |-> next + n_instances]

\* assert(page_id % num_instances_ == instance_index_)
ValidatePageId(page_id) == page_id % num_instances = instance_index

\* Faulty variant of FindReplacePage: the victim's page stays in the page table.
FindReplacePage_KeepsMapping ==
    IF free_list # <<>>
    THEN [Now EXCEPT !.frame_id = Head(free_list), !.from = "free",
                     !.free_list = Tail(free_list)]
    ELSE LET v == Victim(lru_list) IN
         IF ~v.ok
         THEN [Now EXCEPT !.ok = FALSE]
         ELSE LET f == v.frame_id
                  replace_page == pages[f]
              IN [Now EXCEPT
                    !.frame_id = f, !.from = "lru",
                    !.evicted = replace_page.page_id,
                    !.lru_list = v.lru_list,
                    !.pages = [pages EXCEPT ![f].pin_count = 0],
                    !.disk = IF replace_page.is_dirty
                             THEN [disk EXCEPT ![replace_page.page_id] = replace_page.data]
                             ELSE disk]

\* Faulty variant of FindReplacePage: a dirty victim is not written back.
FindReplacePage_NoWriteBack ==
    IF free_list # <<>>
    THEN [Now EXCEPT !.frame_id = Head(free_list), !.from = "free",
                     !.free_list = Tail(free_list)]
    ELSE LET v == Victim(lru_list) IN
         IF ~v.ok
         THEN [Now EXCEPT !.ok = FALSE]
         ELSE LET f == v.frame_id
                  replace_page == pages[f]
              IN [Now EXCEPT
                    !.frame_id = f, !.from = "lru",
                    !.evicted = replace_page.page_id,
                    !.lru_list = v.lru_list,
                    !.pages = [pages EXCEPT ![f].pin_count = 0],
                    !.page_table = Erase(page_table, replace_page.page_id)]

\* Faulty variant of FindReplacePage: the replacer is never asked for a victim.
FindReplacePage_FreeListOnly ==
    IF free_list # <<>>
    THEN [Now EXCEPT !.frame_id = Head(free_list), !.from = "free",
                     !.free_list = Tail(free_list)]
    ELSE [Now EXCEPT !.ok = FALSE]

\* Faulty variant of FindReplacePage: the replacer's victim is taken first,
\* the free list only when there is none.
FindReplacePage_VictimFirst ==
    LET v == Victim(lru_list) IN
    IF v.ok
    THEN LET f == v.frame_id
             replace_page == pages[f]
         IN [Now EXCEPT
               !.frame_id = f, !.from = "lru",
               !.evicted = replace_page.page_id,
               !.lru_list = v.lru_list,
               !.pages = [pages EXCEPT ![f].pin_count = 0],
               !.disk = IF replace_page.is_dirty
                        THEN [disk EXCEPT ![replace_page.page_id] = replace_page.data]
                        ELSE disk,
               !.page_table = Erase(page_table, replace_page.page_id)]
    ELSE IF free_list # <<>>
    THEN [Now EXCEPT !.frame_id = Head(free_list), !.from = "free",
                     !.free_list = Tail(free_list)]
    ELSE [Now EXCEPT !.ok = FALSE]

\* The frame to reuse: from the free list first, else the replacer's victim,
\* written back when dirty and dropped from the page table.
FindReplacePage ==
    IF free_list # <<>>
    THEN [Now EXCEPT !.frame_id = Head(free_list), !.from = "free",
                     !.free_list = Tail(free_list)]
    ELSE LET v == Victim(lru_list) IN
         IF ~v.ok
         THEN [Now EXCEPT !.ok = FALSE]
         ELSE LET f == v.frame_id
                  replace_page == pages[f]
              IN [Now EXCEPT
                    !.frame_id = f, !.from = "lru",
                    !.evicted = replace_page.page_id,
                    !.lru_list = v.lru_list,
                    !.pages = [pages EXCEPT ![f].pin_count = 0],
                    !.disk = IF replace_page.is_dirty
                             THEN [disk EXCEPT ![replace_page.page_id] = replace_page.data]
                             ELSE disk,
                    !.page_table = Erase(page_table, replace_page.page_id)]

\* Faulty variant of NewPgImp: the page id is allocated before the pool is looked at.
NewPgImp_AllocatesFirst ==
    LET all_pined == \A i \in Frames : pages[i].pin_count # 0
        r == FindReplacePage
        a == AllocatePage(next_page_id, num_instances)
    IN IF all_pined
       THEN [Now EXCEPT !.ok = FALSE, !.next_page_id = a.next_page_id]
       ELSE IF ~r.ok
       THEN [Now EXCEPT !.ok = FALSE, !.next_page_id = a.next_page_id]
       ELSE [r EXCEPT
               !.page_id = a.page_id,
               !.next_page_id = a.next_page_id,
               !.pages = [r.pages EXCEPT ![r.frame_id] =
                            [page_id |-> a.page_id, pin_count |-> 1,
                             is_dirty |-> FALSE, data |-> 0]],
               !.lru_list = Pin(r.lru_list, r.frame_id),
               !.page_table = Put(r.page_table, a.page_id, r.frame_id)]

NewPgImp ==
    LET all_pined == \A i \in Frames : pages[i].pin_count # 0
        r == FindReplacePage
        a == AllocatePage(next_page_id, num_instances)
    IN IF all_pined
       THEN [Now EXCEPT !.ok = FALSE]
       ELSE IF ~r.ok
       THEN [Now EXCEPT !.ok = FALSE]
       ELSE [r EXCEPT
               !.page_id = a.page_id,
               !.next_page_id = a.next_page_id,
               !.pages = [r.pages EXCEPT ![r.frame_id] =
                            [page_id |-> a.page_id, pin_count |-> 1,
                             is_dirty |-> FALSE, data |-> 0]],
               !.lru_list = Pin(r.lru_list, r.frame_id),
               !.page_table = Put(r.page_table, a.page_id, r.frame_id)]

\* Faulty variant of FetchPgImp: a resident page is pinned without replacer_->Pin.
FetchPgImp_NoReplacerPin(page_id) ==
    IF page_id \in DOMAIN page_table
    THEN LET frame_id == page_table[page_id] IN
         [Now EXCEPT !.frame_id = frame_id, !.page_id = page_id, !.from = "table",
                     !.pages = [pages EXCEPT ![frame_id].pin_count = @ + 1]]
    ELSE LET r == FindReplacePage IN
         IF ~r.ok
         THEN [Now EXCEPT !.ok = FALSE]
         ELSE [r EXCEPT
                 !.page_id = page_id,
                 !.page_table = Put(r.page_table, page_id, r.frame_id),
                 !.pages = [r.pages EXCEPT ![r.frame_id] =
                              [page_id |-> page_id,
                               pin_count |-> r.pages[r.frame_id].pin_count + 1,
                               is_dirty |-> FALSE,
                               data |-> r.disk[page_id]]],
                 !.lru_list = Pin(r.lru_list, r.frame_id)]

FetchPgImp(page_id) ==
    IF page_id \in DOMAIN page_table
    THEN LET frame_id == page_table[page_id] IN
         [Now EXCEPT !.frame_id = frame_id, !.page_id = page_id, !.from = "table",
                     !.pages = [pages EXCEPT ![frame_id].pin_count = @ + 1],
                     !.lru_list = Pin(lru_list, frame_id)]
    ELSE LET r == FindReplacePage IN
         IF ~r.ok
         THEN [Now EXCEPT !.ok = FALSE]
         ELSE [r EXCEPT
                 !.page_id = page_id,
                 !.page_table = Put(r.page_table, page_id, r.frame_id),
                 !.pages = [r.pages EXCEPT ![r.frame_id] =
                              [page_id |-> page_id,
                               pin_count |-> r.pages[r.frame_id].pin_count + 1,
                               is_dirty |-> FALSE,
                               data |-> r.disk[page_id]]],
                 !.lru_list = Pin(r.lru_list, r.frame_id)]

\* Faulty variant of UnpinPgImp: no early return when the pin count is already 0.
UnpinPgImp_NoGuard(page_id, is_dirty) ==
    IF page_id \notin DOMAIN page_table
    THEN Now
    ELSE LET unpinned_frame == page_table[page_id]
             marked == IF is_dirty
                       THEN [pages EXCEPT ![unpinned_frame].is_dirty = TRUE]
                       ELSE pages
         IN [Now EXCEPT
               !.pages = [marked EXCEPT ![unpinned_frame].pin_count = @ - 1],
               !.lru_list = IF pages[unpinned_frame].pin_count - 1 <= 0
                            THEN Unpin(lru_list, unpinned_frame, pool_size)
                            ELSE lru_list]

\* Faulty variant of UnpinPgImp: the dirty flag is assigned from the hint.
UnpinPgImp_AssignsDirty(page_id, is_dirty) ==
    IF page_id \notin DOMAIN page_table
    THEN Now
    ELSE LET unpinned_frame == page_table[page_id]
             marked == [pages EXCEPT ![unpinned_frame].is_dirty = is_dirty]
         IN IF pages[unpinned_frame].pin_count <= 0
            THEN [Now EXCEPT !.pages = marked]
            ELSE [Now EXCEPT
                    !.pages = [marked EXCEPT ![unpinned_frame].pin_count = @ - 1],
                    !.lru_list = IF pages[unpinned_frame].pin_count - 1 <= 0
                                 THEN Unpin(lru_list, unpinned_frame, pool_size)
                                 ELSE lru_list]

UnpinPgImp(page_id, is_dirty) ==
    IF page_id \notin DOMAIN page_table
    THEN Now
    ELSE LET unpinned_frame == page_table[page_id]
             marked == IF is_dirty
                       THEN [pages EXCEPT ![unpinned_frame].is_dirty = TRUE]
                       ELSE pages
         IN IF pages[unpinned_frame].pin_count <= 0
            THEN [Now EXCEPT !.pages = marked]
            ELSE [Now EXCEPT
                    !.pages = [marked EXCEPT ![unpinned_frame].pin_count = @ - 1],
                    !.lru_list = IF pages[unpinned_frame].pin_count - 1 <= 0
                                 THEN Unpin(lru_list, unpinned_frame, pool_size)
                                 ELSE lru_list]

FlushPgImp(page_id) ==
    IF page_id = INVALID_PAGE_ID
    THEN [Now EXCEPT !.ok = FALSE]
    ELSE IF page_id \notin DOMAIN page_table
    THEN [Now EXCEPT !.ok = FALSE]
    ELSE LET frame_id == page_table[page_id] IN
         [Now EXCEPT !.frame_id = frame_id,
                     !.pages = [pages EXCEPT ![frame_id].is_dirty = FALSE],
                     !.disk = [disk EXCEPT ![page_id] = pages[frame_id].data]]

FlushAllPgsImp ==
    [Now EXCEPT !.disk = [p \in DOMAIN disk |->
                            IF p \in DOMAIN page_table /\ p # INVALID_PAGE_ID
                            THEN pages[page_table[p]].data
                            ELSE disk[p]]]

\* Faulty variant of DeletePgImp: the pin count is not looked at.
DeletePgImp_IgnoresPin(page_id) ==
    IF page_id \notin DOMAIN page_table
    THEN Now
    ELSE LET frame_id == page_table[page_id] IN
         [Now EXCEPT
            !.frame_id = frame_id,
            !.page_table = Erase(page_table, page_id),
            !.pages = [pages EXCEPT ![frame_id] =
                         [page_id |-> INVALID_PAGE_ID, pin_count |-> 0,
                          is_dirty |-> FALSE, data |-> 0]],
            !.free_list = Append(free_list, frame_id)]

DeletePgImp(page_id) ==
    IF page_id \notin DOMAIN page_table
    THEN Now
    ELSE LET frame_id == page_table[page_id] IN
         IF pages[frame_id].pin_count > 0
         THEN [Now EXCEPT !.ok = FALSE, !.frame_id = frame_id]
         ELSE [Now EXCEPT
                 !.frame_id = frame_id,
                 !.page_table = Erase(page_table, page_id),
                 !.pages = [pages EXCEPT ![frame_id] =
                              [page_id |-> INVALID_PAGE_ID, pin_count |-> 0,
                               is_dirty |-> FALSE, data |-> 0]],
                 !.free_list = Append(free_list, frame_id)]

(***************************************************************************)
(* Construction.                                                           *)
(***************************************************************************)
\* BufferPoolManagerInstance(pool_size, num_instances, instance_index, ...)
\* with pool_size drawn from sizes and num_instances from instances.
ConstructInstance(sizes, instances) ==
    /\ pool_size \in sizes
    /\ num_instances \in instances
    /\ instance_index \in 0..(num_instances - 1)
    /\ pages = [f \in 0..(pool_size - 1) |->
                  [page_id |-> INVALID_PAGE_ID, pin_count |-> 0,
                   is_dirty |-> FALSE, data |-> 0]]
    /\ page_table = [p \in {} |-> NoFrame]
    /\ free_list = [i \in 1..pool_size |-> i - 1]
    /\ lru_list = <<>>
    /\ next_page_id = instance_index
    /\ disk = [p \in PageIds |-> 0]
    /\ returned = {}
    /\ expect = [p \in PageIds |-> Unknown]
    /\ unsaved = [p \in PageIds |-> FALSE]
    /\ s1 = 0

\* One instance on its own: the other components are not constructed.
Construct(sizes, instances) ==
    /\ ConstructInstance(sizes, instances)
    /\ NoParallelPool
    /\ NoHashTable
    /\ NoLockManager
    /\ NoExecutor
    /\ NoReplacer

Init == Construct(1..MaxPoolSize, 1..MaxInstances)

(***************************************************************************)
(* Scenario S1 (pool size 3, one instance): three new pages, unpin of the  *)
(* first, a fourth new page, a fetch of the first; then one more unpin and *)
(* the fetch again.  s1 = n says the run so far is exactly the first n     *)
(* calls of the script; S1Off says it has left the script.                 *)
(***************************************************************************)
S1Script ==
    << <<"new", INVALID_PAGE_ID, FALSE>>, <<"new", INVALID_PAGE_ID, FALSE>>,
       <<"new", INVALID_PAGE_ID, FALSE>>, <<"unpin", 0, FALSE>>,
       <<"new", INVALID_PAGE_ID, FALSE>>, <<"fetch", 0, FALSE>>,
       <<"unpin", 1, FALSE>>, <<"fetch", 0, FALSE>> >>

S1Off == Len(S1Script) + 1

S1Step(op, pid, dirty) ==
    IF /\ pool_size = 3
       /\ num_instances = 1
       /\ s1 # S1Off
       /\ s1 < Len(S1Script)
       /\ S1Script[s1 + 1] = <<op, pid, dirty>>
    THEN s1 + 1
    ELSE S1Off

(***************************************************************************)
(* The calls.  Apply(r) leaves the state that the call's result r names.   *)
(***************************************************************************)
Apply(r) ==
    /\ pages' = r.pages
    /\ page_table' = r.page_table
    /\ free_list' = r.free_list
    /\ lru_list' = r.lru_list
    /\ next_page_id' = r.next_page_id
    /\ disk' = r.disk
    /\ UNCHANGED <<pool_size, num_instances, instance_index>>
    /\ UNCHANGED <<parVars, htVars, lmVars, repVars, exVars>>

NewPage ==
    /\ next_page_id <= MaxPageId
    /\ Apply(NewPgImp)
    /\ returned' = IF NewPgImp.ok THEN returned \cup {NewPgImp.page_id} ELSE returned
    /\ s1' = S1Step("new", INVALID_PAGE_ID, FALSE)
    /\ UNCHANGED <<expect, unsaved>>

FetchPage(page_id) ==
    /\ page_id \in DOMAIN page_table => pages[page_table[page_id]].pin_count < MaxPin
    /\ Apply(FetchPgImp(page_id))
    /\ s1' = S1Step("fetch", page_id, FALSE)
    /\ UNCHANGED <<returned, expect, unsaved>>

\* The callers' contract: the writer's own unpin passes is_dirty = true.  A
\* written page whose last pin is released with is_dirty = false is no longer
\* promised to keep the bytes.
UnpinPage(page_id, is_dirty) ==
    /\ Apply(UnpinPgImp(page_id, is_dirty))
    /\ LET broken == /\ ~is_dirty
                     /\ unsaved[page_id]
                     /\ page_id \in DOMAIN page_table
                     /\ pages[page_table[page_id]].pin_count <= 1
       IN /\ unsaved' = IF is_dirty \/ broken
                        THEN [unsaved EXCEPT ![page_id] = FALSE]
                        ELSE unsaved
          /\ expect' = IF broken
                       THEN [expect EXCEPT ![page_id] = Unknown]
                       ELSE expect
    /\ s1' = S1Step("unpin", page_id, is_dirty)
    /\ UNCHANGED returned

FlushPage(page_id) ==
    /\ Apply(FlushPgImp(page_id))
    /\ s1' = S1Step("flush", page_id, FALSE)
    /\ UNCHANGED <<returned, expect, unsaved>>

FlushAllPages ==
    /\ Apply(FlushAllPgsImp)
    /\ s1' = S1Step("flush_all", INVALID_PAGE_ID, FALSE)
    /\ UNCHANGED <<returned, expect, unsaved>>

DeletePage(page_id) ==
    /\ Apply(DeletePgImp(page_id))
    /\ s1' = S1Step("delete", page_id, FALSE)
    /\ UNCHANGED <<returned, expect, unsaved>>

(***************************************************************************)
(* A caller that holds a pin writes the page's bytes, as Insert, Remove    *)
(* and SplitInsert of the hash table do between FetchPage and UnpinPage.   *)
(***************************************************************************)
WritePage(page_id, d) ==
    /\ page_id \in DOMAIN page_table
    /\ pages[page_table[page_id]].pin_count > 0
    /\ Apply([Now EXCEPT !.pages = [pages EXCEPT ![page_table[page_id]].data = d]])
    /\ expect' = [expect EXCEPT ![page_id] = d]
    /\ unsaved' = [unsaved EXCEPT ![page_id] = TRUE]
    /\ s1' = S1Step("write", page_id, FALSE)
    /\ UNCHANGED returned

\* The pool's operations, called with any arguments; no caller writes, so
\* every page holds zeroes.
Next ==
    \/ NewPage
    \/ \E p \in returned : FetchPage(p)
    \/ \E p \in PageIds, d \in BOOLEAN : UnpinPage(p, d)
    \/ \E p \in PageIds \cup {INVALID_PAGE_ID} : FlushPage(p)
    \/ FlushAllPages
    \/ \E p \in PageIds : DeletePage(p)

Spec == Init /\ [][Next]_vars

\* Page contents: callers write the pages they hold; no page is deleted.
InitData == Construct(1..DataPoolSize, {1})

NextData ==
    \/ next_page_id <= DataMaxPageId /\ NewPage
    \/ \E p \in returned : FetchPage(p)
    \/ \E p \in returned, d \in BOOLEAN : UnpinPage(p, d)
    \/ \E p \in returned : FlushPage(p)
    \/ FlushAllPages
    \/ \E p \in returned, d \in Data : WritePage(p, d)

SpecData == InitData /\ [][NextData]_vars

\* Scenario S1: the pool has 3 frames and is the only instance.
InitS1 == Construct({3}, {1})

SpecS1 == InitS1 /\ [][Next]_vars

(***************************************************************************)
(* Types.                                                                  *)
(***************************************************************************)
TypeOK ==
    /\ pool_size \in Nat \ {0}
    /\ num_instances \in 1..MaxInstances
    /\ instance_index \in 0..(num_instances - 1)
    /\ DOMAIN pages = Frames
    /\ \A f \in Frames :
          /\ pages[f].page_id \in PageIds \cup {INVALID_PAGE_ID}
          /\ pages[f].pin_count \in 0..MaxPin
          /\ pages[f].is_dirty \in BOOLEAN
          /\ pages[f].data \in Data
    /\ DOMAIN page_table \subseteq PageIds
    /\ \A p \in DOMAIN page_table : page_table[p] \in Frames
    /\ \A i \in 1..Len(free_list) : free_list[i] \in Frames
    /\ \A i \in 1..Len(lru_list) : lru_list[i] \in Frames
    /\ returned \subseteq PageIds
    /\ \A p \in PageIds : disk[p] \in Data /\ expect[p] \in Data \cup {Unknown}

(***************************************************************************)
(* Vocabulary of the claims.                                               *)
(***************************************************************************)
Resident(p) == p \in DOMAIN page_table

OnFreeList(f) == InSeq(free_list, f)

\* hashmap_.count(f) != 0
InReplacer(f) == InSeq(lru_list, f)

AllPinned == \A f \in Frames : pages[f].pin_count > 0

\* The call with result r left the pool as it was.
Untouched(r) ==
    /\ r.pages = pages
    /\ r.page_table = page_table
    /\ r.free_list = free_list
    /\ r.lru_list = lru_list
    /\ r.next_page_id = next_page_id
    /\ r.disk = disk

ResetPage ==
    [page_id |-> INVALID_PAGE_ID, pin_count |-> 0, is_dirty |-> FALSE, data |-> 0]

(***************************************************************************)
(* C1: in every reachable state every page-table entry p -> f points to a  *)
(* frame whose page_id is p, every frame that holds a valid page_id and is *)
(* not on the free list has a page-table entry, and no two distinct frames *)
(* hold the same valid page_id.                                            *)
(***************************************************************************)
C1_PageTableConsistent ==
    /\ \A p \in DOMAIN page_table :
          /\ page_table[p] \in Frames
          /\ pages[page_table[p]].page_id = p
    /\ \A f \in Frames :
          (pages[f].page_id # INVALID_PAGE_ID /\ ~OnFreeList(f))
             => Resident(pages[f].page_id)
    /\ \A f, g \in Frames :
          (f # g /\ pages[f].page_id # INVALID_PAGE_ID)
             => pages[f].page_id # pages[g].page_id

\* every frame is in use and a page handed out earlier has lost its frame
C1_Witness ==
    /\ pool_size >= 2
    /\ free_list = <<>>
    /\ Cardinality(DOMAIN page_table) = pool_size
    /\ \E p \in returned : ~Resident(p)

(***************************************************************************)
(* C2: in every reachable state a frame is in the replacer iff its pin     *)
(* count is 0 and it is not on the free list.                              *)
(***************************************************************************)
C2_ReplacerMembership ==
    \A f \in Frames :
        InReplacer(f) <=> (pages[f].pin_count = 0 /\ ~OnFreeList(f))

(***************************************************************************)
(* C3: a frame whose pin count is above 0 is not the frame FindReplacePage *)
(* picks, and no step changes its page_id or takes its page out of the     *)
(* page table.                                                             *)
(***************************************************************************)
C3_PinnedFrameStable ==
    [][ /\ FindReplacePage.ok => pages[FindReplacePage.frame_id].pin_count = 0
        /\ \A f \in Frames :
              pages[f].pin_count > 0 =>
                 /\ pages'[f].page_id = pages[f].page_id
                 /\ pages[f].page_id \in DOMAIN page_table'
                 /\ page_table'[pages[f].page_id] = f ]_vars

\* a page stays pinned in a full pool out of which an older page was evicted
C3_Witness ==
    /\ free_list = <<>>
    /\ \E f \in Frames :
          /\ pages[f].pin_count = MaxPin
          /\ \E p \in returned : ~Resident(p) /\ p > pages[f].page_id

(***************************************************************************)
(* C4: a successful fetch of a page yields the last bytes written to it,   *)
(* when every write was released by unpin(page, dirty = true) and no page  *)
(* is deleted: resident, flushed, or evicted and read back from disk.      *)
(***************************************************************************)
C4_FetchYieldsWritten ==
    \A p \in returned :
        expect[p] # Unknown =>
            LET r == FetchPgImp(p) IN
            r.ok => r.pages[r.frame_id].data = expect[p]

\* a written page that was evicted is read back with the written bytes
C4_Witness ==
    \E p \in returned :
        /\ expect[p] = MaxData
        /\ ~Resident(p)
        /\ FetchPgImp(p).ok
        /\ FetchPgImp(p).from = "lru"
        /\ FetchPgImp(p).pages[FetchPgImp(p).frame_id].data = MaxData

(***************************************************************************)
(* C5: instance i of a K-way pool hands out i, i+K, i+2K, ... in that      *)
(* order: each id returned by new_page is i mod K and was never returned   *)
(* before, also after deletes and after failed new_page calls.             *)
(***************************************************************************)
C5_AllocatorPartition ==
    /\ \A p \in returned : p % num_instances = instance_index
    /\ LET r == NewPgImp IN
       r.ok => /\ ValidatePageId(r.page_id)
               /\ r.page_id \notin returned
               /\ r.page_id = instance_index + num_instances * Cardinality(returned)

\* instance 1 of 2 has handed out two ids, 1 and 3, and a page was deleted
\* (a frame is free although a page handed out is not resident)
C5_Witness ==
    /\ num_instances = 2
    /\ instance_index = 1
    /\ returned = {1, 3}
    /\ free_list # <<>>
    /\ \E p \in returned : ~Resident(p)

(***************************************************************************)
(* C6: new_page, and fetch_page of a page that is not resident, return     *)
(* none iff every frame is pinned; a call that returns none leaves page    *)
(* table, free list, replacer, frames and next_page_id as they were;       *)
(* fetch_page of a resident page succeeds and adds one to its pin count.   *)
(***************************************************************************)
C6_NoneIffAllPinned ==
    /\ NewPgImp.ok <=> ~AllPinned
    /\ ~NewPgImp.ok => Untouched(NewPgImp)
    /\ \A p \in PageIds :
          LET r == FetchPgImp(p) IN
          IF Resident(p)
          THEN /\ r.ok
               /\ r.frame_id = page_table[p]
               /\ r.pages[r.frame_id].pin_count = pages[r.frame_id].pin_count + 1
               /\ r.pages[r.frame_id].page_id = p
          ELSE /\ r.ok <=> ~AllPinned
               /\ ~r.ok => Untouched(r)

\* every frame is pinned and a page that lost its frame is asked for
C6_Witness ==
    /\ AllPinned
    /\ pool_size >= 2
    /\ \E p \in returned : ~Resident(p) /\ ~FetchPgImp(p).ok
    /\ ~NewPgImp.ok

(***************************************************************************)
(* C7: delete_page(p) returns true and changes no frame when p is not      *)
(* resident; returns false and leaves page table and frame unchanged when  *)
(* p is resident and pinned; otherwise removes p from the page table,      *)
(* resets the frame, puts it on the free list exactly once, returns true.  *)
(***************************************************************************)
C7_DeleteCases ==
    \A p \in PageIds :
        LET r == DeletePgImp(p) IN
        IF ~Resident(p)
        THEN r.ok /\ r.pages = pages /\ r.page_table = page_table
        ELSE LET f == page_table[p] IN
             IF pages[f].pin_count > 0
             THEN ~r.ok /\ r.page_table = page_table /\ r.pages = pages
             ELSE /\ r.ok
                  /\ ~(p \in DOMAIN r.page_table)
                  /\ r.pages[f] = ResetPage
                  /\ \A g \in Frames \ {f} : r.pages[g] = pages[g]
                  /\ Count(r.free_list, f) = 1

\* a page is resident and pinned, and a delete has put a reset frame behind
\* a frame that was never used (the free list is out of its initial order)
C7_Witness ==
    /\ \E p \in returned : ~Resident(p)
    /\ \E i, j \in 1..Len(free_list) :
          i < j /\ free_list[i] > free_list[j] /\ pages[free_list[j]] = ResetPage

(***************************************************************************)
(* C8: unpin(p, hint) returns true; for a resident p with pin count > 0 it *)
(* takes one off the pin count and hands the frame to the replacer exactly *)
(* when the count reaches 0; for p resident with pin count 0 or p not      *)
(* resident, pin counts and replacer order stay.  No pin count is negative.*)
(***************************************************************************)
C8_UnpinCases ==
    /\ \A f \in Frames : pages[f].pin_count >= 0
    /\ \A p \in PageIds, hint \in BOOLEAN :
          LET r == UnpinPgImp(p, hint) IN
          /\ r.ok
          /\ IF Resident(p) /\ pages[page_table[p]].pin_count > 0
             THEN LET f == page_table[p] IN
                  /\ r.pages[f].pin_count = pages[f].pin_count - 1
                  /\ \A g \in Frames \ {f} : r.pages[g].pin_count = pages[g].pin_count
                  /\ r.lru_list = IF r.pages[f].pin_count = 0
                                  THEN <<f>> \o lru_list
                                  ELSE lru_list
                  /\ ~InReplacer(f)
             ELSE /\ \A g \in Frames : r.pages[g].pin_count = pages[g].pin_count
                  /\ r.lru_list = lru_list

\* a page unpinned to 0 heads the replacer while another holds two pins
C8_Witness ==
    /\ Len(lru_list) >= 1
    /\ pages[lru_list[1]].pin_count = 0
    /\ pages[lru_list[1]].page_id # INVALID_PAGE_ID
    /\ \E g \in Frames : pages[g].pin_count = 2

(***************************************************************************)
(* C9: unpin(p, false) leaves the dirty flag of p's frame, unpin(p, true)  *)
(* sets it; while p stays resident in the same frame its dirty flag goes   *)
(* from true to false only by flush_page(p).                               *)
(***************************************************************************)
C9_UnpinLeavesDirty ==
    \A p \in DOMAIN page_table :
        LET f == page_table[p] IN
        /\ UnpinPgImp(p, FALSE).pages[f].is_dirty = pages[f].is_dirty
        /\ UnpinPgImp(p, TRUE).pages[f].is_dirty
        /\ \A g \in Frames \ {f}, hint \in BOOLEAN :
              UnpinPgImp(p, hint).pages[g].is_dirty = pages[g].is_dirty

C9_ClearedOnlyByFlush ==
    \A f \in Frames :
        ( /\ pages[f].is_dirty
          /\ ~pages'[f].is_dirty
          /\ pages[f].page_id # INVALID_PAGE_ID
          /\ pages'[f].page_id = pages[f].page_id )
        => /\ pages' = FlushPgImp(pages[f].page_id).pages
           /\ FlushPgImp(pages[f].page_id).ok
           /\ page_table' = page_table
           /\ lru_list' = lru_list
           /\ free_list' = free_list

C9_StickyDirty == []C9_UnpinLeavesDirty /\ [][C9_ClearedOnlyByFlush]_vars

\* a dirty page was unpinned to 0 while a clean page is pinned
C9_Witness ==
    /\ \E f \in Frames : pages[f].is_dirty /\ InReplacer(f) /\ ~OnFreeList(f)
    /\ \E f \in Frames : ~pages[f].is_dirty /\ pages[f].pin_count > 0

(***************************************************************************)
(* C10: scenario S1.  Pool of 3 frames, new_page -> p1, p2, p3 (ids 0, 1,  *)
(* 2), unpin(p1, false); the fourth new_page -> p4 succeeds and evicts p1. *)
(* As claimed: the next fetch(p1), p2..p4 still pinned, succeeds.          *)
(***************************************************************************)
C10_S1Original ==
    /\ s1 = 4 => /\ NewPgImp.ok
                 /\ NewPgImp.from = "lru"
                 /\ NewPgImp.evicted = 0
    /\ s1 = 5 => /\ FetchPgImp(0).ok
                 /\ FetchPgImp(0).from # "table"

\* C10 as amended: the fetch(p1) with p2, p3, p4 still pinned returns none
\* and changes nothing; after unpin(p2, false) it succeeds, taking p2's
\* frame and reading p1 from disk.
C10_S1Amended ==
    /\ s1 = 4 => /\ NewPgImp.ok
                 /\ NewPgImp.from = "lru"
                 /\ NewPgImp.evicted = 0
                 /\ NewPgImp.page_id = 3
    /\ s1 = 5 => /\ ~Resident(0)
                 /\ \A p \in {1, 2, 3} :
                       Resident(p) /\ pages[page_table[p]].pin_count = 1
                 /\ ~FetchPgImp(0).ok
                 /\ Untouched(FetchPgImp(0))
    /\ s1 = 6 => ~Resident(0) /\ AllPinned
    /\ s1 = 7 => LET r == FetchPgImp(0) IN
                 /\ r.ok
                 /\ r.from = "lru"
                 /\ r.evicted = 1
                 /\ r.pages[r.frame_id].data = disk[0]
    /\ s1 = 8 => /\ Resident(0)
                 /\ pages[page_table[0]].pin_count = 1
                 /\ ~Resident(1)

\* the script has run to its end
C10_Witness == s1 = 8 /\ Resident(0) /\ Resident(3)

(***************************************************************************)
(* Part 2: ParallelBufferPoolManager.  Every instance is a                 *)
(* BufferPoolManagerInstance(pool_size, num_instances, instance_index)     *)
(* of its own; an instance b is the record of its pages_ (page id and pin  *)
(* count of every frame), page_table_, free_list_, the replacer's list     *)
(* and next_page_id_.  Page contents play no part in the routing and are   *)
(* left out.                                                               *)
(***************************************************************************)
ParPageIds == 0..MaxParPageId

NumInstances == Len(bpm_instances)

InstFrames(b) == DOMAIN b.pages

InstAllPinned(b) == \A f \in InstFrames(b) : b.pages[f].pin_count # 0

\* BufferPoolManagerInstance(pool_size, num_instances, instance_index, ...)
NewInstance(size, n_instances, index) ==
    [pages |-> [f \in 0..(size - 1) |-> [page_id |-> INVALID_PAGE_ID, pin_count |-> 0]],
     page_table |-> [p \in {} |-> NoFrame],
     free_list |-> [i \in 1..size |-> i - 1],
     lru_list |-> <<>>,
     next_page_id |-> index]

\* FindReplacePage of instance b: ok, the frame, the instance after the call.
InstFindReplacePage(b) ==
    IF b.free_list # <<>>
    THEN [ok |-> TRUE, frame_id |-> Head(b.free_list),
          inst |-> [b EXCEPT !.free_list = Tail(b.free_list)]]
    ELSE LET v == Victim(b.lru_list) IN
         IF ~v.ok
         THEN [ok |-> FALSE, frame_id |-> NoFrame, inst |-> b]
         ELSE [ok |-> TRUE, frame_id |-> v.frame_id,
               inst |-> [b EXCEPT
                           !.lru_list = v.lru_list,
                           !.pages = [b.pages EXCEPT ![v.frame_id].pin_count = 0],
                           !.page_table = Erase(b.page_table,
                                                b.pages[v.frame_id].page_id)]]

\* NewPgImp of instance b in a pool of n_instances.
InstNewPgImp(b, n_instances) ==
    LET r == InstFindReplacePage(b)
        a == AllocatePage(b.next_page_id, n_instances)
    IN IF InstAllPinned(b) \/ ~r.ok
       THEN [ok |-> FALSE, page_id |-> INVALID_PAGE_ID, inst |-> b]
       ELSE [ok |-> TRUE, page_id |-> a.page_id,
             inst |-> [r.inst EXCEPT
                         !.next_page_id = a.next_page_id,
                         !.pages = [r.inst.pages EXCEPT ![r.frame_id] =
                                      [page_id |-> a.page_id, pin_count |-> 1]],
                         !.lru_list = Pin(r.inst.lru_list, r.frame_id),
                         !.page_table = Put(r.inst.page_table, a.page_id, r.frame_id)]]

InstFetchPgImp(b, page_id) ==
    IF page_id \in DOMAIN b.page_table
    THEN LET frame_id == b.page_table[page_id] IN
         [ok |-> TRUE,
          inst |-> [b EXCEPT !.pages = [b.pages EXCEPT ![frame_id].pin_count = @ + 1],
                             !.lru_list = Pin(b.lru_list, frame_id)]]
    ELSE LET r == InstFindReplacePage(b) IN
         IF ~r.ok
         THEN [ok |-> FALSE, inst |-> b]
         ELSE [ok |-> TRUE,
               inst |-> [r.inst EXCEPT
                           !.page_table = Put(r.inst.page_table, page_id, r.frame_id),
                           !.pages = [r.inst.pages EXCEPT ![r.frame_id] =
                                        [page_id |-> page_id,
                                         pin_count |-> r.inst.pages[r.frame_id].pin_count + 1]],
                           !.lru_list = Pin(r.inst.lru_list, r.frame_id)]]

InstUnpinPgImp(b, page_id) ==
    IF page_id \notin DOMAIN b.page_table
    THEN [ok |-> TRUE, inst |-> b]
    ELSE LET unpinned_frame == b.page_table[page_id] IN
         IF b.pages[unpinned_frame].pin_count <= 0
         THEN [ok |-> TRUE, inst |-> b]
         ELSE [ok |-> TRUE,
               inst |-> [b EXCEPT
                           !.pages = [b.pages EXCEPT ![unpinned_frame].pin_count = @ - 1],
                           !.lru_list = IF b.pages[unpinned_frame].pin_count - 1 <= 0
                                        THEN Unpin(b.lru_list, unpinned_frame,
                                                   Cardinality(InstFrames(b)))
                                        ELSE b.lru_list]]

InstDeletePgImp(b, page_id) ==
    IF page_id \notin DOMAIN b.page_table
    THEN [ok |-> TRUE, inst |-> b]
    ELSE LET frame_id == b.page_table[page_id] IN
         IF b.pages[frame_id].pin_count > 0
         THEN [ok |-> FALSE, inst |-> b]
         ELSE [ok |-> TRUE,
               inst |-> [b EXCEPT
                           !.page_table = Erase(b.page_table, page_id),
                           !.pages = [b.pages EXCEPT ![frame_id] =
                                        [page_id |-> INVALID_PAGE_ID, pin_count |-> 0]],
                           !.free_list = Append(b.free_list, frame_id)]]

\* bpm_instances_ is indexed from 0; the sequence bpm_instances from 1.
InstanceAt(index) == bpm_instances[index + 1]

\* The index of the instance responsible for page_id.
GetBufferPoolManager(page_id) == page_id % NumInstances

\* The pool after instance index has become b.
WithInstance(index, b) == [bpm_instances EXCEPT ![index + 1] = b]

\* A per-page call, handed to the responsible instance.
Routed(page_id, r) ==
    [ok |-> r.ok, bpm_instances |-> WithInstance(GetBufferPoolManager(page_id), r.inst)]

ParFetchPgImp(page_id) ==
    Routed(page_id, InstFetchPgImp(InstanceAt(GetBufferPoolManager(page_id)), page_id))

ParUnpinPgImp(page_id) ==
    Routed(page_id, InstUnpinPgImp(InstanceAt(GetBufferPoolManager(page_id)), page_id))

ParDeletePgImp(page_id) ==
    Routed(page_id, InstDeletePgImp(InstanceAt(GetBufferPoolManager(page_id)), page_id))

\* The do-while loop of NewPgImp: the instances are tried from next_instance_
\* on, once around; tried[j] is the j-th instance tried.  An instance that
\* returns nullptr is left as it was.
ParTried(j) == (next_instance + j) % NumInstances

ParServing ==
    {j \in 0..(NumInstances - 1) : InstNewPgImp(InstanceAt(ParTried(j)), NumInstances).ok}

\* Faulty variant of ParNewPgImp: next_instance_ stays where it is after a success.
ParNewPgImp_KeepsCursor ==
    IF ParServing = {}
    THEN [ok |-> FALSE, index |-> NoFrame, page_id |-> INVALID_PAGE_ID,
          bpm_instances |-> bpm_instances,
          next_instance |-> (next_instance + 1) % NumInstances]
    ELSE LET j == CHOOSE x \in ParServing : \A y \in ParServing : x <= y
             index == ParTried(j)
             r == InstNewPgImp(InstanceAt(index), NumInstances)
         IN [ok |-> TRUE, index |-> index, page_id |-> r.page_id,
             bpm_instances |-> WithInstance(index, r.inst),
             next_instance |-> next_instance]

ParNewPgImp ==
    IF ParServing = {}
    THEN [ok |-> FALSE, index |-> NoFrame, page_id |-> INVALID_PAGE_ID,
          bpm_instances |-> bpm_instances,
          next_instance |-> (next_instance + 1) % NumInstances]
    ELSE LET j == CHOOSE x \in ParServing : \A y \in ParServing : x <= y
             index == ParTried(j)
             r == InstNewPgImp(InstanceAt(index), NumInstances)
         IN [ok |-> TRUE, index |-> index, page_id |-> r.page_id,
             bpm_instances |-> WithInstance(index, r.inst),
             next_instance |-> (next_instance + 1) % NumInstances]

\* An instance that cannot serve a new page: all its frames are pinned.
Exhausted(index) == InstAllPinned(InstanceAt(index))

NoneExhausted == \A i \in 0..(NumInstances - 1) : ~Exhausted(i)

\* ParallelBufferPoolManager(num_instances, pool_size, ...); the single
\* instance of Part 1 stands by, untouched.
InitPar ==
    /\ ConstructInstance({1}, {1})
    /\ \E k \in 1..MaxParInstances :
          bpm_instances = [i \in 1..k |-> NewInstance(ParPoolSize, k, i - 1)]
    /\ next_instance = 0
    /\ par_calls = 0
    /\ par_clean = TRUE
    /\ NoHashTable
    /\ NoLockManager
    /\ NoExecutor
    /\ NoReplacer

ParNewPage ==
    /\ par_calls <= MaxParPageId
    /\ \A i \in 0..(NumInstances - 1) : InstanceAt(i).next_page_id <= MaxParPageId
    /\ bpm_instances' = ParNewPgImp.bpm_instances
    /\ next_instance' = ParNewPgImp.next_instance
    /\ par_calls' = par_calls + 1
    /\ par_clean' = (par_clean /\ NoneExhausted)
    /\ UNCHANGED <<bpiVars, htVars, lmVars, repVars, exVars>>

ParFetchPage(page_id) ==
    /\ LET b == InstanceAt(GetBufferPoolManager(page_id)) IN
          page_id \in DOMAIN b.page_table =>
             b.pages[b.page_table[page_id]].pin_count < MaxPin
    /\ bpm_instances' = ParFetchPgImp(page_id).bpm_instances
    /\ UNCHANGED <<next_instance, par_calls, par_clean>>
    /\ UNCHANGED <<bpiVars, htVars, lmVars, repVars, exVars>>

ParUnpinPage(page_id) ==
    /\ bpm_instances' = ParUnpinPgImp(page_id).bpm_instances
    /\ UNCHANGED <<next_instance, par_calls, par_clean>>
    /\ UNCHANGED <<bpiVars, htVars, lmVars, repVars, exVars>>

ParDeletePage(page_id) ==
    /\ bpm_instances' = ParDeletePgImp(page_id).bpm_instances
    /\ UNCHANGED <<next_instance, par_calls, par_clean>>
    /\ UNCHANGED <<bpiVars, htVars, lmVars, repVars, exVars>>

\* Page ids the pool has handed out so far.
ParReturned ==
    {p \in ParPageIds : p < InstanceAt(GetBufferPoolManager(p)).next_page_id}

NextPar ==
    \/ ParNewPage
    \/ \E p \in ParReturned : ParFetchPage(p)
    \/ \E p \in ParReturned : ParUnpinPage(p)
    \/ \E p \in ParReturned : ParDeletePage(p)

SpecPar == InitPar /\ [][NextPar]_vars

\* C11: in a pool of K instances, as long as no NewPgImp call has found an
\* instance with all frames pinned, the n-th call (from 0) is served by
\* instance n mod K and returns page id n; and a fetch, unpin or delete of
\* page p is the call of instance p mod K, every other instance untouched.
C11_RoundRobin ==
    NumInstances > 0 =>
       /\ (par_clean /\ NoneExhausted) =>
             /\ ParNewPgImp.ok
             /\ ParNewPgImp.index = par_calls % NumInstances
             /\ ParNewPgImp.page_id = par_calls
       /\ \A p \in ParPageIds :
             LET i == p % NumInstances
                 OnlyAt(r, b) == /\ r.bpm_instances[i + 1] = b
                                 /\ \A o \in 1..NumInstances :
                                       o # i + 1 => r.bpm_instances[o] = bpm_instances[o]
             IN /\ OnlyAt(ParFetchPgImp(p), InstFetchPgImp(InstanceAt(i), p).inst)
                /\ OnlyAt(ParUnpinPgImp(p), InstUnpinPgImp(InstanceAt(i), p).inst)
                /\ OnlyAt(ParDeletePgImp(p), InstDeletePgImp(InstanceAt(i), p).inst)

\* The calls have gone around a pool of several instances more than once,
\* none of them ever exhausted, and a page of the last instance is cached.
C11_Witness ==
    /\ NumInstances >= 2
    /\ par_clean
    /\ NoneExhausted
    /\ par_calls > NumInstances
    /\ \E p \in ParPageIds :
          /\ p % NumInstances = NumInstances - 1
          /\ p \in DOMAIN InstanceAt(NumInstances - 1).page_table

(***************************************************************************)
(* Part 3: ExtendibleHashTable.  A table h is the record of its directory  *)
(* page and its bucket pages.  The buffer pool under the table is taken to *)
(* keep every page's bytes (the table unpins what it wrote with is_dirty = *)
(* true).  The table is built with asserts compiled in: the calls inside   *)
(* assert(...) are made.                                                   *)
(***************************************************************************)
Keys == 0..MaxKey
Values == 0..MaxValue

\* SplitInsert: if (split_bucket_depth >= 9) return false
MAX_DEPTH == 9

\* hash_fn_ is the constructor's argument: keys hash to themselves.
Hash(key) == key

HtNow == [dir_page |-> dir_page, bucket_pages |-> bucket_pages]

\* The constructor's pages: the first bucket page, then the directory page.
FIRST_BUCKET_PAGE_ID == 0
DIRECTORY_PAGE_ID == 1

\* The id of the page NewPage returns.  The pool hands out an id that names
\* no page of the table, and the table only compares page ids for equality:
\* the id is taken to be the least one not in use.
NewPageId(h) ==
    LET used == DOMAIN h.bucket_pages \cup {DIRECTORY_PAGE_ID}
    IN CHOOSE p \in 0..Cardinality(used) : p \notin used /\ \A q \in 0..(p - 1) : q \in used

(***************************************************************************)
(* HashTableDirectoryPage.  d.local_depths and d.bucket_page_ids are the   *)
(* first Size(d) entries of the arrays.                                    *)
(***************************************************************************)
Size(d) == 2 ^ d.global_depth

DirInit(bucket_page_id) ==
    [global_depth |-> 0,
     local_depths |-> [i \in {0} |-> 0],
     bucket_page_ids |-> [i \in {0} |-> bucket_page_id]]

\* The directory doubles: entry i + Size names what entry i names.
IncrGlobalDepth(d) ==
    [global_depth |-> d.global_depth + 1,
     local_depths |-> [i \in 0..(2 * Size(d) - 1) |-> d.local_depths[i % Size(d)]],
     bucket_page_ids |-> [i \in 0..(2 * Size(d) - 1) |-> d.bucket_page_ids[i % Size(d)]]]

DecrGlobalDepth(d) ==
    [global_depth |-> d.global_depth - 1,
     local_depths |-> [i \in 0..((Size(d) \div 2) - 1) |-> d.local_depths[i]],
     bucket_page_ids |-> [i \in 0..((Size(d) \div 2) - 1) |-> d.bucket_page_ids[i]]]

\* bucket_idx with the highest bit of its local depth flipped.
GetSplitImageIndex(d, bucket_idx) ==
    LET l == d.local_depths[bucket_idx]
        bit == 2 ^ (l - 1)
    IN IF l = 0
       THEN bucket_idx
       ELSE IF (bucket_idx \div bit) % 2 = 1
       THEN bucket_idx - bit
       ELSE bucket_idx + bit

CanShrink(d) == \A i \in 0..(Size(d) - 1) : d.local_depths[i] < d.global_depth

RECURSIVE Shrink(_)
\* while (dir_page->CanShrink()) dir_page->DecrGlobalDepth()
Shrink(d) == IF CanShrink(d) THEN Shrink(DecrGlobalDepth(d)) ELSE d

\* Hash(key) & dir_page->GetGlobalDepthMask()
KeyToDirectoryIndex(key, d) == Hash(key) % Size(d)

KeyToPageId(key, d) == d.bucket_page_ids[KeyToDirectoryIndex(key, d)]

(***************************************************************************)
(* HashTableBucketPage.  A bucket is the sequence of its slots (slot       *)
(* bucket_idx of the code is element bucket_idx + 1); the key and value of *)
(* a slot that is not readable are never read and are kept as 0.           *)
(***************************************************************************)
EmptySlot == [readable |-> FALSE, key |-> 0, value |-> 0]

\* A page of zeroes (NewPgImp resets the memory; Init clears the bitmaps).
EmptyBucket == [i \in 1..bucket_array_size |-> EmptySlot]

\* A bucket whose page a write outside array_ has damaged.
Overrun == <<>>

NumReadable(b) == Cardinality({i \in 1..Len(b) : b[i].readable})

\* Faulty variant of IsFull: a bucket with one free slot counts as full.
IsFull_OneEarly(b) == NumReadable(b) >= bucket_array_size - 1

IsFull(b) == NumReadable(b) = bucket_array_size

IsEmpty(b) == NumReadable(b) = 0

Holds(b, key, value) ==
    \E i \in 1..Len(b) : b[i].readable /\ b[i].key = key /\ b[i].value = value

\* The values of key, in slot order.
BucketGetValue(b, key) ==
    LET hit == SelectSeq(b, LAMBDA e : e.readable /\ e.key = key)
    IN [i \in 1..Len(hit) |-> hit[i].value]

\* The first loop stops at the first slot that is not readable (insert_idx),
\* the second goes on looking for the pair.  insert_idx is a size_t: when no
\* slot is free the test insert_idx < 0 is false and array_[-1] is written.
BucketInsert(b, key, value) ==
    LET free == {i \in 1..Len(b) : ~b[i].readable} IN
    IF Holds(b, key, value)
    THEN [ok |-> FALSE, bucket |-> b]
    ELSE IF free = {}
    THEN [ok |-> TRUE, bucket |-> Overrun]
    ELSE LET insert_idx == CHOOSE i \in free : \A j \in free : i <= j
         IN [ok |-> TRUE,
             bucket |-> [b EXCEPT ![insert_idx] =
                           [readable |-> TRUE, key |-> key, value |-> value]]]

\* Faulty variant of BucketRemove: the slot stays readable.
BucketRemove_KeepsReadable(b, key, value) ==
    [ok |-> Holds(b, key, value), bucket |-> b]

\* RemoveAt clears the readable bit of the first slot holding the pair.
BucketRemove(b, key, value) ==
    LET hit == {i \in 1..Len(b) : b[i].readable /\ b[i].key = key /\ b[i].value = value}
    IN IF hit = {}
       THEN [ok |-> FALSE, bucket |-> b]
       ELSE LET bucket_idx == CHOOSE i \in hit : \A j \in hit : i <= j
            IN [ok |-> TRUE, bucket |-> [b EXCEPT ![bucket_idx] = EmptySlot]]

(***************************************************************************)
(* ExtendibleHashTable.                                                    *)
(***************************************************************************)
\* ExtendibleHashTable(...): the first bucket page, then the directory page.
NewTable ==
    [dir_page |-> DirInit(FIRST_BUCKET_PAGE_ID),
     bucket_pages |-> [p \in {FIRST_BUCKET_PAGE_ID} |-> EmptyBucket]]

GetValue(h, key) == BucketGetValue(h.bucket_pages[KeyToPageId(key, h.dir_page)], key)

RECURSIVE Redistribute_KeepsCopy(_, _, _, _, _)
\* Faulty variant of Redistribute: a moved entry stays in the split bucket too.
Redistribute_KeepsCopy(d, split_bucket, image_bucket, image_bucket_page_id, bucket_idx) ==
    IF bucket_idx > Len(split_bucket)
    THEN [split_bucket |-> split_bucket, image_bucket |-> image_bucket]
    ELSE LET e == split_bucket[bucket_idx] IN
         IF e.readable /\ KeyToPageId(e.key, d) = image_bucket_page_id
         THEN Redistribute_KeepsCopy(d, split_bucket,
                                     BucketInsert(image_bucket, e.key, e.value).bucket,
                                     image_bucket_page_id, bucket_idx + 1)
         ELSE Redistribute_KeepsCopy(d, split_bucket, image_bucket,
                                     image_bucket_page_id, bucket_idx + 1)

RECURSIVE Redistribute(_, _, _, _, _)
\* The loop over the slots of the split bucket, from slot bucket_idx on: an
\* entry whose directory slot names the image page moves there.
Redistribute(d, split_bucket, image_bucket, image_bucket_page_id, bucket_idx) ==
    IF bucket_idx > Len(split_bucket)
    THEN [split_bucket |-> split_bucket, image_bucket |-> image_bucket]
    ELSE LET e == split_bucket[bucket_idx] IN
         IF e.readable /\ KeyToPageId(e.key, d) = image_bucket_page_id
         THEN Redistribute(d, BucketRemove(split_bucket, e.key, e.value).bucket,
                           BucketInsert(image_bucket, e.key, e.value).bucket,
                           image_bucket_page_id, bucket_idx + 1)
         ELSE Redistribute(d, split_bucket, image_bucket,
                           image_bucket_page_id, bucket_idx + 1)

\* Faulty variant of SplitBucket: only the image slot itself is redirected.
SplitBucket_NoStride(h, key) ==
    LET d0 == h.dir_page
        split_bucket_index == KeyToDirectoryIndex(key, d0)
        d1 == IF d0.local_depths[split_bucket_index] = d0.global_depth
              THEN IncrGlobalDepth(d0)
              ELSE d0
        d2 == [d1 EXCEPT !.local_depths[split_bucket_index] = @ + 1]
        split_bucket_page_id == KeyToPageId(key, d2)
        image_bucket_page_id == NewPageId(h)
        image_bucket_index == GetSplitImageIndex(d2, split_bucket_index)
        d3 == [d2 EXCEPT !.local_depths[image_bucket_index] = d2.local_depths[split_bucket_index],
                         !.bucket_page_ids[image_bucket_index] = image_bucket_page_id]
        moved == Redistribute(d3, h.bucket_pages[split_bucket_page_id],
                              [i \in 1..bucket_array_size |-> EmptySlot],
                              image_bucket_page_id, 1)
    IN [dir_page |-> d3,
        bucket_pages |-> Put(Put(h.bucket_pages, split_bucket_page_id, moved.split_bucket),
                             image_bucket_page_id, moved.image_bucket)]

\* SplitInsert past the depth test: the directory grows when the bucket's
\* local depth is the global depth, the bucket's local depth goes up by
\* one, a new image page takes the directory slots of the image prefix, and
\* the entries are redistributed.
SplitBucket(h, key) ==
    LET d0 == h.dir_page
        split_bucket_index == KeyToDirectoryIndex(key, d0)
        d1 == IF d0.local_depths[split_bucket_index] = d0.global_depth
              THEN IncrGlobalDepth(d0)
              ELSE d0
        d2 == [d1 EXCEPT !.local_depths[split_bucket_index] = @ + 1]
        split_bucket_page_id == KeyToPageId(key, d2)
        image_bucket_page_id == NewPageId(h)
        image_bucket_index == GetSplitImageIndex(d2, split_bucket_index)
        depth == d2.local_depths[split_bucket_index]
        diff == 2 ^ depth
        d3 == [global_depth |-> d2.global_depth,
               local_depths |->
                  [i \in 0..(Size(d2) - 1) |->
                     IF i % diff = split_bucket_index % diff \/ i % diff = image_bucket_index % diff
                     THEN depth
                     ELSE d2.local_depths[i]],
               bucket_page_ids |->
                  [i \in 0..(Size(d2) - 1) |->
                     IF i % diff = image_bucket_index % diff
                     THEN image_bucket_page_id
                     ELSE IF i % diff = split_bucket_index % diff
                     THEN split_bucket_page_id
                     ELSE d2.bucket_page_ids[i]]]
        moved == Redistribute(d3, h.bucket_pages[split_bucket_page_id],
                              [i \in 1..bucket_array_size |-> EmptySlot],
                              image_bucket_page_id, 1)
    IN [dir_page |-> d3,
        bucket_pages |-> Put(Put(h.bucket_pages, split_bucket_page_id, moved.split_bucket),
                             image_bucket_page_id, moved.image_bucket)]

\* Insert and SplitInsert call each other.  A result is ok, the number of
\* splits made and the table the call leaves.
RECURSIVE Insert(_, _, _)
RECURSIVE SplitInsert(_, _, _)

\* Faulty variant of SplitInsert: a bucket at the depth limit is split once more.
SplitInsert_OneMore(h, key, value) ==
    LET split_bucket_index == KeyToDirectoryIndex(key, h.dir_page)
        split_bucket_depth == h.dir_page.local_depths[split_bucket_index]
    IN IF split_bucket_depth > MAX_DEPTH
       THEN [ok |-> FALSE, splits |-> 0, h |-> h]
       ELSE LET r == Insert(SplitBucket(h, key), key, value)
            IN [r EXCEPT !.splits = @ + 1]

SplitInsert(h, key, value) ==
    LET split_bucket_index == KeyToDirectoryIndex(key, h.dir_page)
        split_bucket_depth == h.dir_page.local_depths[split_bucket_index]
    IN IF split_bucket_depth >= MAX_DEPTH
       THEN [ok |-> FALSE, splits |-> 0, h |-> h]
       ELSE LET r == Insert(SplitBucket(h, key), key, value)
            IN [r EXCEPT !.splits = @ + 1]

Insert(h, key, value) ==
    LET bucket_page_id == KeyToPageId(key, h.dir_page)
        bucket_page == h.bucket_pages[bucket_page_id]
    IN IF ~IsFull(bucket_page)
       THEN LET r == BucketInsert(bucket_page, key, value)
            IN [ok |-> r.ok, splits |-> 0,
                h |-> [h EXCEPT !.bucket_pages[bucket_page_id] = r.bucket]]
       ELSE SplitInsert(h, key, value)

\* Faulty variant of Merge: the target bucket is merged without the test
\* that it is empty.
Merge_NoEmptyTest(h, key) ==
    LET d == h.dir_page
        target_bucket_index == KeyToDirectoryIndex(key, d)
        target_bucket_page_id == d.bucket_page_ids[target_bucket_index]
        image_bucket_index == GetSplitImageIndex(d, target_bucket_index)
        local_depth == d.local_depths[target_bucket_index]
        image_bucket_page_id == d.bucket_page_ids[image_bucket_index]
        d3 == [global_depth |-> d.global_depth,
               local_depths |->
                  [i \in 0..(Size(d) - 1) |->
                     IF d.bucket_page_ids[i] \in {target_bucket_page_id, image_bucket_page_id}
                     THEN local_depth - 1
                     ELSE d.local_depths[i]],
               bucket_page_ids |->
                  [i \in 0..(Size(d) - 1) |->
                     IF d.bucket_page_ids[i] \in {target_bucket_page_id, image_bucket_page_id}
                     THEN image_bucket_page_id
                     ELSE d.bucket_page_ids[i]]]
    IN IF local_depth = 0 \/ local_depth # d.local_depths[image_bucket_index]
       THEN h
       ELSE [h EXCEPT !.bucket_pages = Erase(h.bucket_pages, target_bucket_page_id),
                      !.dir_page = Shrink(d3)]

\* Merge(key): refused at local depth 0, when the image's local depth is
\* another, and when the bucket is not empty.
Merge(h, key) ==
    LET d == h.dir_page
        target_bucket_index == KeyToDirectoryIndex(key, d)
        target_bucket_page_id == d.bucket_page_ids[target_bucket_index]
        image_bucket_index == GetSplitImageIndex(d, target_bucket_index)
        local_depth == d.local_depths[target_bucket_index]
        image_bucket_page_id == d.bucket_page_ids[image_bucket_index]
        d1 == [d EXCEPT !.bucket_page_ids[target_bucket_index] = image_bucket_page_id,
                        !.local_depths[target_bucket_index] = @ - 1]
        d2 == [d1 EXCEPT !.local_depths[image_bucket_index] = @ - 1]
        d3 == [global_depth |-> d2.global_depth,
               local_depths |->
                  [i \in 0..(Size(d2) - 1) |->
                     IF d2.bucket_page_ids[i] \in {target_bucket_page_id, image_bucket_page_id}
                     THEN d2.local_depths[target_bucket_index]
                     ELSE d2.local_depths[i]],
               bucket_page_ids |->
                  [i \in 0..(Size(d2) - 1) |->
                     IF d2.bucket_page_ids[i] \in {target_bucket_page_id, image_bucket_page_id}
                     THEN image_bucket_page_id
                     ELSE d2.bucket_page_ids[i]]]
    IN IF target_bucket_index >= Size(d)
       THEN h
       ELSE IF local_depth = 0
       THEN h
       ELSE IF local_depth # d.local_depths[image_bucket_index]
       THEN h
       ELSE IF ~IsEmpty(h.bucket_pages[target_bucket_page_id])
       THEN h
       ELSE [h EXCEPT !.bucket_pages = Erase(h.bucket_pages, target_bucket_page_id),
                      !.dir_page = Shrink(d3)]

Remove(h, key, value) ==
    LET bucket_page_id == KeyToPageId(key, h.dir_page)
        r == BucketRemove(h.bucket_pages[bucket_page_id], key, value)
        h1 == [h EXCEPT !.bucket_pages[bucket_page_id] = r.bucket]
    IN IF IsEmpty(r.bucket)
       THEN [ok |-> r.ok, h |-> Merge(h1, key)]
       ELSE [ok |-> r.ok, h |-> h1]

(***************************************************************************)
(* The buffer pool calls of the index.  Every operation is the sequence of *)
(* FetchPage, NewPage, UnpinPage and DeletePage calls it makes on the path *)
(* it takes; the pool keeps one pin_count_ per page.                       *)
(***************************************************************************)
BufferPoolCall(call, page_id) == [call |-> call, page_id |-> page_id]

\* Pins taken less unpins asked for on page_id in the first n calls.
Balance(p, calls, page_id, n) ==
    (IF page_id \in DOMAIN p.pin_count THEN p.pin_count[page_id] ELSE 0)
    + Cardinality({i \in 1..n : /\ calls[i].page_id = page_id
                                 /\ calls[i].call \in {"FetchPage", "NewPage"}})
    - Cardinality({i \in 1..n : /\ calls[i].page_id = page_id
                                 /\ calls[i].call = "UnpinPage"})

\* pin_count_ of page_id after the first n calls.  FetchPage and NewPage add
\* one; UnpinPage takes one off, and leaves a count of 0 alone: the count is
\* the balance, less the lowest balance below 0 met on the way.
Pins(p, calls, page_id, n) ==
    LET unpins == {i \in 1..n : /\ calls[i].page_id = page_id
                                /\ calls[i].call = "UnpinPage"}
        below == {Balance(p, calls, page_id, i) : i \in unpins} \cap {b \in Int : b < 0}
        lowest == IF below = {} THEN 0 ELSE CHOOSE b \in below : \A c \in below : b <= c
    IN Balance(p, calls, page_id, n) - lowest

\* UnpinPage returns true always; DeletePage returns false when the page is
\* pinned.
Succeeds(p, calls, i) ==
    calls[i].call = "DeletePage" => Pins(p, calls, calls[i].page_id, i - 1) = 0

\* The page is allocated after the calls: it was there or was brought in,
\* and no DeletePage came after.
Allocated(p, calls, page_id) ==
    LET brought == {i \in 1..Len(calls) : /\ calls[i].page_id = page_id
                                           /\ calls[i].call \in {"FetchPage", "NewPage"}}
        deleted == {i \in 1..Len(calls) : /\ calls[i].page_id = page_id
                                           /\ calls[i].call = "DeletePage"}
    IN IF deleted = {}
       THEN page_id \in DOMAIN p.pin_count \/ brought # {}
       ELSE \E i \in brought : \A j \in deleted : j < i

\* The pin counts after the calls; ok says that every call so far returned
\* true.
AfterCalls(p, calls) ==
    LET touched == DOMAIN p.pin_count \cup {calls[i].page_id : i \in 1..Len(calls)}
    IN [pin_count |-> [page_id \in {q \in touched : Allocated(p, calls, q)} |->
                          Pins(p, calls, page_id, Len(calls))],
        ok |-> p.ok /\ \A i \in 1..Len(calls) : Succeeds(p, calls, i)]

\* The constructor: a bucket page and the directory page, both unpinned.
ConstructorCalls ==
    <<BufferPoolCall("NewPage", FIRST_BUCKET_PAGE_ID),
      BufferPoolCall("UnpinPage", FIRST_BUCKET_PAGE_ID),
      BufferPoolCall("NewPage", DIRECTORY_PAGE_ID),
      BufferPoolCall("UnpinPage", DIRECTORY_PAGE_ID)>>

\* GetValue, and the fast paths of Insert and Remove: the directory page and
\* the bucket page of key are fetched, then unpinned.
BucketCalls(h, key) ==
    <<BufferPoolCall("FetchPage", DIRECTORY_PAGE_ID),
      BufferPoolCall("FetchPage", KeyToPageId(key, h.dir_page)),
      BufferPoolCall("UnpinPage", KeyToPageId(key, h.dir_page)),
      BufferPoolCall("UnpinPage", DIRECTORY_PAGE_ID)>>

\* GetGlobalDepth and VerifyIntegrity.
DirectoryCalls ==
    <<BufferPoolCall("FetchPage", DIRECTORY_PAGE_ID),
      BufferPoolCall("UnpinPage", DIRECTORY_PAGE_ID)>>

RECURSIVE InsertCalls(_, _, _)
RECURSIVE SplitInsertCalls(_, _, _)

\* SplitInsert: at the depth limit the directory page alone; else the split
\* page and the new image page too, then Insert again.
SplitInsertCalls(h, key, value) ==
    IF h.dir_page.local_depths[KeyToDirectoryIndex(key, h.dir_page)] >= MAX_DEPTH
    THEN DirectoryCalls
    ELSE <<BufferPoolCall("FetchPage", DIRECTORY_PAGE_ID),
           BufferPoolCall("FetchPage", KeyToPageId(key, h.dir_page)),
           BufferPoolCall("NewPage", NewPageId(h)),
           BufferPoolCall("UnpinPage", KeyToPageId(key, h.dir_page)),
           BufferPoolCall("UnpinPage", NewPageId(h)),
           BufferPoolCall("UnpinPage", DIRECTORY_PAGE_ID)>>
         \o InsertCalls(SplitBucket(h, key), key, value)

InsertCalls(h, key, value) ==
    BucketCalls(h, key)
    \o IF IsFull(h.bucket_pages[KeyToPageId(key, h.dir_page)])
       THEN SplitInsertCalls(h, key, value)
       ELSE <<>>

\* Faulty variant of MergeCalls: a refused merge returns with the directory
\* page still pinned.
MergeCalls_KeepsPin(h, key) ==
    LET d == h.dir_page
        target_bucket_index == KeyToDirectoryIndex(key, d)
        target_bucket_page_id == d.bucket_page_ids[target_bucket_index]
        local_depth == d.local_depths[target_bucket_index]
    IN <<BufferPoolCall("FetchPage", DIRECTORY_PAGE_ID)>>
       \o IF local_depth = 0
             \/ local_depth # d.local_depths[GetSplitImageIndex(d, target_bucket_index)]
          THEN <<>>
          ELSE <<BufferPoolCall("FetchPage", target_bucket_page_id),
                 BufferPoolCall("UnpinPage", target_bucket_page_id)>>
               \o (IF IsEmpty(h.bucket_pages[target_bucket_page_id])
                   THEN <<BufferPoolCall("DeletePage", target_bucket_page_id)>>
                   ELSE <<>>)
               \o <<BufferPoolCall("UnpinPage", DIRECTORY_PAGE_ID)>>

\* Merge: the directory page; past the two depth tests the target page,
\* which is unpinned and, if empty, deleted.
MergeCalls(h, key) ==
    LET d == h.dir_page
        target_bucket_index == KeyToDirectoryIndex(key, d)
        target_bucket_page_id == d.bucket_page_ids[target_bucket_index]
        local_depth == d.local_depths[target_bucket_index]
    IN <<BufferPoolCall("FetchPage", DIRECTORY_PAGE_ID)>>
       \o IF target_bucket_index >= Size(d)
          THEN <<>>
          ELSE IF local_depth = 0
                  \/ local_depth # d.local_depths[GetSplitImageIndex(d, target_bucket_index)]
          THEN <<BufferPoolCall("UnpinPage", DIRECTORY_PAGE_ID)>>
          ELSE <<BufferPoolCall("FetchPage", target_bucket_page_id),
                 BufferPoolCall("UnpinPage", target_bucket_page_id)>>
               \o (IF IsEmpty(h.bucket_pages[target_bucket_page_id])
                   THEN <<BufferPoolCall("DeletePage", target_bucket_page_id)>>
                   ELSE <<>>)
               \o <<BufferPoolCall("UnpinPage", DIRECTORY_PAGE_ID)>>

\* Remove: the fast path, then Merge if the bucket is empty.
RemoveCalls(h, key, value) ==
    LET bucket_page_id == KeyToPageId(key, h.dir_page)
        r == BucketRemove(h.bucket_pages[bucket_page_id], key, value)
    IN BucketCalls(h, key)
       \o IF IsEmpty(r.bucket)
          THEN MergeCalls([h EXCEPT !.bucket_pages[bucket_page_id] = r.bucket], key)
          ELSE <<>>

(***************************************************************************)
(* Scenario S3 (2 slots per bucket): insert 1, 2, 3, 4, 5 into the empty   *)
(* index, every key with itself as value.  s3 = n says the run so far is   *)
(* exactly the first n calls of the script.                                *)
(***************************************************************************)
S3Keys == {1, 2, 3, 4, 5}

S3Script == <<1, 2, 3, 4, 5>>

S3Off == Len(S3Script) + 1

S3Step(op, key, value) ==
    IF /\ bucket_array_size = 2
       /\ s3 # S3Off
       /\ s3 < Len(S3Script)
       /\ op = "insert"
       /\ key = S3Script[s3 + 1]
       /\ value = key
    THEN s3 + 1
    ELSE S3Off

(***************************************************************************)
(* The calls of one thread.                                                *)
(***************************************************************************)
ConstructTable(sizes) ==
    /\ ConstructInstance({1}, {1})
    /\ NoParallelPool
    /\ NoLockManager
    /\ NoExecutor
    /\ NoReplacer
    /\ bucket_array_size \in sizes
    /\ dir_page = NewTable.dir_page
    /\ bucket_pages = NewTable.bucket_pages
    /\ live = {}
    /\ ht_calls = 0
    /\ s3 = 0
    /\ table_latch = [readers |-> 0, writer |-> FALSE]
    /\ ht_thread = EmptyBag
    /\ ht_pins = AfterCalls([pin_count |-> <<>>, ok |-> TRUE], ConstructorCalls)

ApplyTable(h) ==
    /\ dir_page' = h.dir_page
    /\ bucket_pages' = h.bucket_pages
    /\ UNCHANGED <<bucket_array_size, table_latch, ht_thread,
                   bpiVars, parVars, lmVars, repVars, exVars>>

HtInsert(key, value) ==
    LET r == Insert(HtNow, key, value) IN
    /\ ApplyTable(r.h)
    /\ \E calls \in {InsertCalls(HtNow, key, value)} :
          ht_pins' = AfterCalls(ht_pins, calls)
    /\ ht_calls' = ht_calls + 1
    /\ live' = IF r.ok THEN live \cup {<<key, value>>} ELSE live
    /\ s3' = S3Step("insert", key, value)

HtRemove(key, value) ==
    LET r == Remove(HtNow, key, value) IN
    /\ ApplyTable(r.h)
    /\ \E calls \in {RemoveCalls(HtNow, key, value)} :
          ht_pins' = AfterCalls(ht_pins, calls)
    /\ ht_calls' = ht_calls + 1
    /\ live' = IF r.ok THEN live \ {<<key, value>>} ELSE live
    /\ s3' = S3Step("remove", key, value)

InitHt == ConstructTable(1..MaxBucketSize)

NextHt ==
    \/ ht_calls < MaxHtCalls /\ \E k \in Keys, v \in Values : HtInsert(k, v)
    \/ ht_calls < MaxHtCalls /\ \E k \in Keys, v \in Values : HtRemove(k, v)

SpecHt == InitHt /\ [][NextHt]_vars

\* Scenario S3: 2 slots per bucket, each key its own value.
InitS3 == ConstructTable({2})

NextS3 ==
    \/ ht_calls < MaxS3Calls /\ \E k \in S3Keys : HtInsert(k, k)
    \/ ht_calls < MaxS3Calls /\ \E k \in S3Keys : HtRemove(k, k)

SpecS3 == InitS3 /\ [][NextS3]_vars

HtTypeOK ==
    /\ dir_page.global_depth \in 0..MAX_DEPTH
    /\ DOMAIN dir_page.local_depths = 0..(Size(dir_page) - 1)
    /\ DOMAIN dir_page.bucket_page_ids = 0..(Size(dir_page) - 1)
    /\ \A i \in 0..(Size(dir_page) - 1) :
          /\ dir_page.local_depths[i] \in 0..dir_page.global_depth
          /\ dir_page.bucket_page_ids[i] \in DOMAIN bucket_pages
    /\ \A p \in DOMAIN bucket_pages : Len(bucket_pages[p]) = bucket_array_size

(***************************************************************************)
(* Vocabulary of the claims on the index.                                  *)
(***************************************************************************)
\* The pages holding the pair in a readable slot.
PagesHolding(h, key, value) ==
    {p \in DOMAIN h.bucket_pages : Holds(h.bucket_pages[p], key, value)}

\* The pairs in readable slots of the table's buckets.
Stored(h) ==
    {<<h.bucket_pages[p][i].key, h.bucket_pages[p][i].value>> :
        p \in DOMAIN h.bucket_pages, i \in 1..bucket_array_size}
    \cap {<<k, v>> \in Keys \X Values : PagesHolding(h, k, v) # {}}

\* get(key) returns value.
Gets(h, key, value) ==
    \E i \in 1..Len(GetValue(h, key)) : GetValue(h, key)[i] = value

\* The local depth of the directory slot of key.
LocalDepthOf(h, key) == h.dir_page.local_depths[KeyToDirectoryIndex(key, h.dir_page)]

\* C12: every live pair (k, v) is returned by get(k) and sits in exactly one
\* slot of exactly one bucket, the one the directory names for hash(k) under
\* the global-depth mask; the buckets hold no other pair: splits and merges
\* lose nothing and duplicate nothing.
C12_LivePairsFound ==
    bucket_array_size > 0 =>
       /\ \A kv \in live :
             /\ Gets(HtNow, kv[1], kv[2])
             /\ PagesHolding(HtNow, kv[1], kv[2]) = {KeyToPageId(kv[1], dir_page)}
             /\ Cardinality({i \in 1..bucket_array_size :
                               LET e == bucket_pages[KeyToPageId(kv[1], dir_page)][i]
                               IN e.readable /\ e.key = kv[1] /\ e.value = kv[2]}) = 1
       /\ \A p \in DOMAIN bucket_pages : \A i \in 1..Len(bucket_pages[p]) :
             bucket_pages[p][i].readable =>
                <<bucket_pages[p][i].key, bucket_pages[p][i].value>> \in live

\* A split has moved a live pair to an image page, and a merge has deleted
\* the first bucket page while pairs live on.
C12_Witness ==
    /\ bucket_array_size > 0
    /\ live # {}
    /\ FIRST_BUCKET_PAGE_ID \notin DOMAIN bucket_pages
    /\ \E kv \in live : KeyToPageId(kv[1], dir_page) # FIRST_BUCKET_PAGE_ID

\* The directory slots naming page p.
SlotsOf(d, p) == {j \in 0..(Size(d) - 1) : d.bucket_page_ids[j] = p}

\* C13: two directory slots name the same bucket exactly when they agree on
\* the low l bits, l the local depth of that bucket: the slots naming a
\* bucket are those agreeing with one of them on the low l bits, and they
\* all record the local depth l.
C13_DirectoryDepths ==
    bucket_array_size > 0 =>
       \A p \in {dir_page.bucket_page_ids[i] : i \in 0..(Size(dir_page) - 1)} :
          LET slots == SlotsOf(dir_page, p)
              i == CHOOSE x \in slots : TRUE
              l == dir_page.local_depths[i]
          IN /\ slots = {j \in 0..(Size(dir_page) - 1) : j % (2 ^ l) = i % (2 ^ l)}
             /\ \A j \in slots : dir_page.local_depths[j] = l

\* The directory has buckets of several slots and buckets of one slot.
C13_Witness ==
    /\ bucket_array_size > 0
    /\ dir_page.global_depth >= 2
    /\ \E i \in 0..(Size(dir_page) - 1) : dir_page.local_depths[i] < dir_page.global_depth
    /\ \E i \in 0..(Size(dir_page) - 1) : dir_page.local_depths[i] = dir_page.global_depth
    /\ live # {}

\* C14: insert of a pair that is present returns false and leaves the
\* directory and every bucket as they were, also when the pair's bucket is
\* full.
C14_DuplicateInsertNoChange ==
    bucket_array_size > 0 =>
       \A kv \in live :
          /\ ~Insert(HtNow, kv[1], kv[2]).ok
          /\ Insert(HtNow, kv[1], kv[2]).h = HtNow

\* C15: for a pair whose insert succeeds, the remove that follows returns
\* true, after it get(k) does not return v, and every other live pair is
\* still returned.
C15_InsertThenRemove ==
    bucket_array_size > 0 =>
       \A k \in Keys, v \in Values :
          LET r1 == Insert(HtNow, k, v)
              r2 == Remove(r1.h, k, v)
          IN r1.ok =>
                /\ r2.ok
                /\ ~Gets(r2.h, k, v)
                /\ \A kv \in live \ {<<k, v>>} : Gets(r2.h, kv[1], kv[2])

\* An insert that splits succeeds beside other live pairs, and the remove
\* that follows empties the bucket and merges it.
C15_Witness ==
    /\ bucket_array_size > 0
    /\ live # {}
    /\ \E k \in Keys, v \in Values :
          LET r1 == Insert(HtNow, k, v)
          IN /\ r1.ok
             /\ r1.splits >= 1
             /\ Remove(r1.h, k, v).h.dir_page.global_depth < r1.h.dir_page.global_depth

\* C16, as stated: in scenario S3 the bucket is full after 1 and 2, the
\* insert of 3 splits it and takes the global depth from 0 to 1, and after
\* all five inserts the global depth is 3 and get(3) returns [3].
C16_S3Original ==
    /\ s3 = 2 => /\ dir_page.global_depth = 0
                 /\ IsFull(bucket_pages[dir_page.bucket_page_ids[0]])
    /\ s3 = 3 => dir_page.global_depth = 1
    /\ s3 = 5 => /\ dir_page.global_depth = 3
                 /\ GetValue(HtNow, 3) = <<3>>

\* C16, amended: as above, but after all five inserts the global depth is 2
\* (the insert of 5 splits the bucket of 1 and 3 once, 1 and 5 share it).
C16_S3Amended ==
    /\ s3 = 2 => /\ dir_page.global_depth = 0
                 /\ IsFull(bucket_pages[dir_page.bucket_page_ids[0]])
    /\ s3 = 3 => /\ dir_page.global_depth = 1
                 /\ Cardinality(DOMAIN bucket_pages) = 2
    /\ s3 = 5 => /\ dir_page.global_depth = 2
                 /\ GetValue(HtNow, 3) = <<3>>
                 /\ GetValue(HtNow, 1) = <<1>>
                 /\ GetValue(HtNow, 5) = <<5>>
                 /\ KeyToPageId(1, dir_page) = KeyToPageId(5, dir_page)

C16_Witness == s3 = 5 /\ live = {<<k, k>> : k \in S3Keys}

\* C17: an insert makes at most MAX_DEPTH splits, each raising the local
\* depth of the key's bucket by one; it returns false only when the pair is
\* present or the key's bucket is (still) full at local depth MAX_DEPTH, and
\* true otherwise, the pair then being stored.
C17_InsertTerminates ==
    bucket_array_size > 0 =>
       \A k \in Keys, v \in Values :
          LET r == Insert(HtNow, k, v)
              full9 == /\ IsFull(r.h.bucket_pages[KeyToPageId(k, r.h.dir_page)])
                       /\ LocalDepthOf(r.h, k) = MAX_DEPTH
          IN /\ r.splits <= MAX_DEPTH
             /\ r.splits = LocalDepthOf(r.h, k) - LocalDepthOf(HtNow, k)
             /\ ~r.ok => (<<k, v>> \in live \/ full9)
             /\ r.ok => /\ <<k, v>> \notin live
                        /\ PagesHolding(r.h, k, v) = {KeyToPageId(k, r.h.dir_page)}

\* Some insert of a new pair splits MAX_DEPTH times and fails, and some
\* insert splits and succeeds.
C17_Witness ==
    /\ bucket_array_size > 0
    /\ \E k \in Keys, v \in Values :
          /\ <<k, v>> \notin live
          /\ Insert(HtNow, k, v).splits = MAX_DEPTH
          /\ ~Insert(HtNow, k, v).ok
    /\ \E k \in Keys, v \in Values :
          /\ Insert(HtNow, k, v).splits >= 1
          /\ Insert(HtNow, k, v).ok

(***************************************************************************)
(* Part 4: the LockManager.  Every transaction is run by one thread.  A    *)
(* lock call reads the transaction's state and lock sets before it takes   *)
(* latch_; what it does while it holds latch_ is one atomic step, and      *)
(* cv_.wait gives latch_ up until the thread is woken.                     *)
(***************************************************************************)
Txns == DOMAIN txn_state    \* txn ids: the smaller id is the older transaction
Rids == DOMAIN lock_table

IsolationLevels == {"READ_UNCOMMITTED", "REPEATABLE_READ", "READ_COMMITTED"}
TransactionStates == {"GROWING", "SHRINKING", "COMMITTED", "ABORTED"}
LockOps == {"shared", "exclusive", "upgrade"}

\* A thread outside every lock manager call.
Idle == [pc |-> "idle", op |-> "none", rid |-> 0, notified |-> FALSE]

LockRequest(txn_id, lock_mode) ==
    [txn_id |-> txn_id, lock_mode |-> lock_mode, granted |-> FALSE]

\* What the lock manager and the transactions hold now.
LmNow ==
    [lock_table |-> lock_table, txn_state |-> txn_state,
     shared_lock_set |-> shared_lock_set,
     exclusive_lock_set |-> exclusive_lock_set,
     thread |-> thread, lm_ret |-> lm_ret]

IsSharedLocked(s, t, r) == r \in s.shared_lock_set[t]
IsExclusiveLocked(s, t, r) == r \in s.exclusive_lock_set[t]

\* The position of the first request of t in queue q; Len(q) + 1 if none.
FirstOwn(q, t) ==
    IF \E i \in 1..Len(q) : q[i].txn_id = t
    THEN CHOOSE i \in 1..Len(q) :
            /\ q[i].txn_id = t
            /\ \A j \in 1..(i - 1) : q[j].txn_id # t
    ELSE Len(q) + 1

\* The positions the loops of NeedWait* visit: those before t's first request.
Before(q, t) == 1..(FirstOwn(q, t) - 1)

\* cv_.notify_all() of rid r called by the thread of t: every thread
\* waiting on r is woken.
NotifyAll(thread_map, t, r) ==
    [u \in Txns |->
        IF u # t /\ thread_map[u].pc = "wait" /\ thread_map[u].rid = r
        THEN [thread_map[u] EXCEPT !.notified = TRUE]
        ELSE thread_map[u]]

\* younger->SetState(ABORTED) for the transactions of victims that are not
\* ABORTED yet, then notify_all if there was one (exist_abort).
Wound(s, t, r, victims, notify) ==
    LET exist_abort == \E u \in victims : s.txn_state[u] # "ABORTED" IN
    [s EXCEPT
        !.txn_state = [u \in Txns |->
                          IF u \in victims THEN "ABORTED" ELSE s.txn_state[u]],
        !.thread = IF exist_abort /\ notify
                   THEN NotifyAll(s.thread, t, r) ELSE s.thread]

\* Faulty variant of NeedWaitShared: an earlier request of an older
\* transaction is waited for whatever its mode.
NeedWaitShared_AnyMode(s, t, r) ==
    LET q == s.lock_table[r]
        younger == {q[i].txn_id : i \in {j \in Before(q, t) :
                        q[j].txn_id > t /\ q[j].lock_mode = "EXCLUSIVE"}}
    IN [need_wait |-> \E i \in Before(q, t) : q[i].txn_id < t,
        s |-> Wound(s, t, r, younger, TRUE)]

\* LockManager::NeedWaitShared: [need_wait, s]
NeedWaitShared(s, t, r) ==
    LET q == s.lock_table[r]
        younger == {q[i].txn_id : i \in {j \in Before(q, t) :
                        q[j].txn_id > t /\ q[j].lock_mode = "EXCLUSIVE"}}
    IN [need_wait |-> \E i \in Before(q, t) :
                         q[i].txn_id < t /\ q[i].lock_mode = "EXCLUSIVE",
        s |-> Wound(s, t, r, younger, TRUE)]

\* Faulty variant of NeedWaitExclusive: an earlier request of a younger
\* transaction is waited for, not wounded.
NeedWaitExclusive_WaitsForAll(s, t, r) ==
    [need_wait |-> Before(s.lock_table[r], t) # {}, s |-> s]

\* LockManager::NeedWaitExclusive: [need_wait, s]
NeedWaitExclusive(s, t, r) ==
    LET q == s.lock_table[r]
        younger == {q[i].txn_id : i \in {j \in Before(q, t) : q[j].txn_id > t}}
    IN [need_wait |-> \E i \in Before(q, t) : q[i].txn_id < t,
        s |-> Wound(s, t, r, younger, TRUE)]

\* LockManager::NeedWaitUpgrade: [need_wait, s].  Without a request of t in
\* the queue the whole queue is visited, false is returned and nobody is
\* notified.
NeedWaitUpgrade(s, t, r) ==
    LET q == s.lock_table[r]
        req_exist == FirstOwn(q, t) <= Len(q)
        younger == {q[i].txn_id : i \in {j \in Before(q, t) : q[j].txn_id > t}}
    IN [need_wait |-> req_exist /\ \E i \in Before(q, t) : q[i].txn_id < t,
        s |-> Wound(s, t, r, younger, req_exist)]

NeedWait(s, t, op, r) ==
    CASE op = "shared" -> NeedWaitShared(s, t, r)
      [] op = "exclusive" -> NeedWaitExclusive(s, t, r)
      [] OTHER -> NeedWaitUpgrade(s, t, r)

\* The call of t returns: value is "true", "false" or "throw".
Return(s, t, value) ==
    [s EXCEPT !.thread[t] = Idle, !.lm_ret[t] = value]

\* Past the wait loop.  LockShared and LockExclusive mark every request of t
\* in the queue granted unless t is ABORTED; LockUpgrade moves rid from the
\* shared to the exclusive lock set.  All three end with SetState(GROWING).
Granted(s, t, op, r) ==
    LET q == s.lock_table[r]
        marked == [i \in 1..Len(q) |->
                      IF q[i].txn_id = t /\ s.txn_state[t] # "ABORTED"
                      THEN [q[i] EXCEPT !.granted = TRUE] ELSE q[i]]
        s1r == IF op = "upgrade"
               THEN [s EXCEPT
                       !.shared_lock_set[t] = @ \ {r},
                       !.exclusive_lock_set[t] = @ \cup {r}]
               ELSE [s EXCEPT !.lock_table[r] = marked]
    IN Return([s1r EXCEPT !.txn_state[t] = "GROWING"], t, "true")

\* One turn of the wait loop: NeedWait*, then cv_.wait or the way out.
WaitLoop(s, t, op, r) ==
    LET n == NeedWait(s, t, op, r) IN
    IF n.need_wait
    THEN [n.s EXCEPT !.thread[t] =
             [pc |-> "wait", op |-> op, rid |-> r, notified |-> FALSE]]
    ELSE Granted(n.s, t, op, r)

\* The thread of t takes latch_: LockShared and LockExclusive append the
\* request and add rid to the lock set, then all three enter the wait loop.
Latched(s, t) ==
    LET op == s.thread[t].op
        r == s.thread[t].rid
        appended ==
            CASE op = "shared" ->
                   [s EXCEPT
                      !.lock_table[r] = Append(@, LockRequest(t, "SHARED")),
                      !.shared_lock_set[t] = @ \cup {r}]
              [] op = "exclusive" ->
                   [s EXCEPT
                      !.lock_table[r] = Append(@, LockRequest(t, "EXCLUSIVE")),
                      !.exclusive_lock_set[t] = @ \cup {r}]
              [] OTHER -> s
    IN WaitLoop(appended, t, op, r)

\* The thread of t comes back from cv_.wait holding latch_: an ABORTED
\* transaction returns false, its request and its lock set as they are.
Awake(s, t) ==
    IF s.txn_state[t] = "ABORTED"
    THEN Return(s, t, "false")
    ELSE WaitLoop(s, t, s.thread[t].op, s.thread[t].rid)

\* The thread goes on to latch_.
ToLatch(s, t, op, r) ==
    [s EXCEPT !.thread[t] =
        [pc |-> "latch", op |-> op, rid |-> r, notified |-> FALSE]]

\* SetState(ABORTED); throw TransactionAbortException(LOCK_ON_SHRINKING)
AbortOnShrinking(s, t) ==
    Return([s EXCEPT !.txn_state[t] = "ABORTED"], t, "throw")

\* LockManager::LockShared up to latch_.
LockSharedCheck(s, t, r) ==
    CASE s.txn_state[t] = "ABORTED" -> Return(s, t, "false")
      [] s.txn_state[t] # "ABORTED"
         /\ isolation_level[t] = "READ_UNCOMMITTED" ->
            Return([s EXCEPT !.txn_state[t] = "ABORTED"], t, "false")
      [] s.txn_state[t] = "SHRINKING"
         /\ isolation_level[t] = "REPEATABLE_READ" -> AbortOnShrinking(s, t)
      [] OTHER -> IF IsSharedLocked(s, t, r)
                  THEN Return(s, t, "true")
                  ELSE ToLatch(s, t, "shared", r)

\* Faulty variant of LockExclusiveCheck: the ABORTED test is left out.
LockExclusiveCheck_NoAbortedTest(s, t, r) ==
    CASE s.txn_state[t] = "SHRINKING" -> AbortOnShrinking(s, t)
      [] OTHER -> IF IsExclusiveLocked(s, t, r)
                  THEN Return(s, t, "true")
                  ELSE ToLatch(s, t, "exclusive", r)

\* LockManager::LockExclusive up to latch_.
LockExclusiveCheck(s, t, r) ==
    CASE s.txn_state[t] = "ABORTED" -> Return(s, t, "false")
      [] s.txn_state[t] = "SHRINKING" -> AbortOnShrinking(s, t)
      [] OTHER -> IF IsExclusiveLocked(s, t, r)
                  THEN Return(s, t, "true")
                  ELSE ToLatch(s, t, "exclusive", r)

\* Faulty variant of LockUpgradeCheck: the SHRINKING test is left out.
LockUpgradeCheck_NoShrinkingTest(s, t, r) ==
    CASE s.txn_state[t] = "ABORTED" -> Return(s, t, "false")
      [] OTHER -> IF IsExclusiveLocked(s, t, r)
                  THEN Return(s, t, "true")
                  ELSE ToLatch(s, t, "upgrade", r)

\* LockManager::LockUpgrade up to latch_.
LockUpgradeCheck(s, t, r) ==
    CASE s.txn_state[t] = "ABORTED" -> Return(s, t, "false")
      [] s.txn_state[t] = "SHRINKING" -> AbortOnShrinking(s, t)
      [] OTHER -> IF IsExclusiveLocked(s, t, r)
                  THEN Return(s, t, "true")
                  ELSE ToLatch(s, t, "upgrade", r)

\* assert(txn->IsSharedLocked(rid)): LockUpgrade is called with the shared
\* lock held, unless it returns before the assert.
UpgradeAllowed(s, t, r) ==
    \/ s.txn_state[t] \in {"ABORTED", "SHRINKING"}
    \/ IsExclusiveLocked(s, t, r)
    \/ IsSharedLocked(s, t, r)

LockCheck(s, t, op, r) ==
    CASE op = "shared" -> LockSharedCheck(s, t, r)
      [] op = "exclusive" -> LockExclusiveCheck(s, t, r)
      [] OTHER -> LockUpgradeCheck(s, t, r)

\* q without its element at position i
EraseAt(q, i) == SubSeq(q, 1, i - 1) \o SubSeq(q, i + 1, Len(q))

\* Faulty variant of Unlock: a GROWING transaction becomes SHRINKING at
\* every isolation level, whatever lock it releases.
Unlock_AlwaysShrinks(s, t, r) ==
    LET q == s.lock_table[r]
        i == FirstOwn(q, t)
        erased == [s EXCEPT !.lock_table[r] = EraseAt(q, i),
                            !.thread = NotifyAll(s.thread, t, r)]
    IN IF ~IsSharedLocked(s, t, r) /\ ~IsExclusiveLocked(s, t, r)
       THEN Return(s, t, "true")
       ELSE IF i > Len(q)
       THEN Return(s, t, "false")
       ELSE Return([erased EXCEPT
                      !.txn_state[t] = IF @ = "GROWING" THEN "SHRINKING" ELSE @,
                      !.shared_lock_set[t] = @ \ {r},
                      !.exclusive_lock_set[t] = @ \ {r}], t, "true")

\* LockManager::Unlock.  The lock sets it reads before latch_ are written by
\* the thread of t alone, so the call is one step.
Unlock(s, t, r) ==
    LET q == s.lock_table[r]
        i == FirstOwn(q, t)
        erased == [s EXCEPT !.lock_table[r] = EraseAt(q, i),
                            !.thread = NotifyAll(s.thread, t, r)]
        shrinks ==
            /\ s.txn_state[t] = "GROWING"
            /\ \/ isolation_level[t] = "REPEATABLE_READ"
               \/ IsExclusiveLocked(s, t, r)
    IN IF ~IsSharedLocked(s, t, r) /\ ~IsExclusiveLocked(s, t, r)
       THEN Return(s, t, "true")
       ELSE IF i > Len(q)
       THEN Return(s, t, "false")
       ELSE Return([erased EXCEPT
                      !.txn_state[t] = IF shrinks THEN "SHRINKING" ELSE @,
                      !.shared_lock_set[t] = @ \ {r},
                      !.exclusive_lock_set[t] = @ \ {r}], t, "true")

(***************************************************************************)
(* The steps of the threads.                                               *)
(***************************************************************************)
\* The step leaves what the call computed (res: s, computed once).
LeaveLm(s) ==
    \E res \in {s} :
    /\ lock_table' = res.lock_table
    /\ txn_state' = res.txn_state
    /\ shared_lock_set' = res.shared_lock_set
    /\ exclusive_lock_set' = res.exclusive_lock_set
    /\ thread' = res.thread
    /\ lm_ret' = res.lm_ret
    /\ shrunk' = shrunk \cup {t \in Txns : res.txn_state[t] = "SHRINKING"}
    /\ UNCHANGED <<isolation_level, bpiVars, parVars, htVars, repVars>>

\* A step of a lock manager call made outside the executors.
ApplyLm(s) == LeaveLm(s) /\ UNCHANGED exVars

\* The thread of t calls a lock manager function.
Calls(t) ==
    /\ thread[t].pc = "idle"
    /\ lm_calls > 0
    /\ lm_calls' = lm_calls - 1

CallLockShared(t, r) ==
    /\ Calls(t)
    /\ ApplyLm(LockSharedCheck(LmNow, t, r))

CallLockExclusive(t, r) ==
    /\ Calls(t)
    /\ ApplyLm(LockExclusiveCheck(LmNow, t, r))

CallLockUpgrade(t, r) ==
    /\ Calls(t)
    /\ UpgradeAllowed(LmNow, t, r)
    /\ ApplyLm(LockUpgradeCheck(LmNow, t, r))

CallUnlock(t, r) ==
    /\ Calls(t)
    /\ ApplyLm(Unlock(LmNow, t, r))

\* The thread of t takes latch_ in its lock call.
EnterLatch(t) ==
    /\ thread[t].pc = "latch"
    /\ ApplyLm(Latched(LmNow, t))
    /\ UNCHANGED lm_calls

\* The thread of t, notified, comes back from cv_.wait.
Wake(t) ==
    /\ thread[t].pc = "wait"
    /\ thread[t].notified
    /\ ApplyLm(Awake(LmNow, t))
    /\ UNCHANGED lm_calls

\* cv_.wait may come back without a notification.
SpuriousWake(t) ==
    /\ thread[t].pc = "wait"
    /\ ~thread[t].notified
    /\ ApplyLm(Awake(LmNow, t))
    /\ UNCHANGED lm_calls

\* The lock manager and the transactions txns after construction.
ConstructLockManager(txns, rids, calls) ==
    /\ ConstructInstance({1}, {1})
    /\ NoParallelPool
    /\ NoHashTable
    /\ NoReplacer
    /\ lock_table = [r \in rids |-> <<>>]
    /\ txn_state = [t \in txns |-> "GROWING"]
    /\ isolation_level \in [txns -> IsolationLevels]
    /\ shared_lock_set = [t \in txns |-> {}]
    /\ exclusive_lock_set = [t \in txns |-> {}]
    /\ thread = [t \in txns |-> Idle]
    /\ lm_ret = [t \in txns |-> "none"]
    /\ shrunk = {}
    /\ lm_calls = calls

InitLmWith(txns, rids, calls) ==
    /\ ConstructLockManager(txns, rids, calls)
    /\ NoExecutor

InitLm == InitLmWith(1..MaxTxn, 1..MaxRid, MaxLmCalls)

NextLm ==
    \/ \E t \in Txns, r \in Rids : CallLockShared(t, r)
    \/ \E t \in Txns, r \in Rids : CallLockExclusive(t, r)
    \/ \E t \in Txns, r \in Rids : CallLockUpgrade(t, r)
    \/ \E t \in Txns, r \in Rids : CallUnlock(t, r)
    \/ \E t \in Txns : EnterLatch(t)
    \/ \E t \in Txns : Wake(t)
    \/ \E t \in Txns : SpuriousWake(t)

SpecLm == InitLm /\ [][NextLm]_vars

\* The lock manager over one rid: what a call does to its caller's state
\* and to the queue of its rid involves no other rid.
InitLmOne == InitLmWith(1..MaxTxn, {1}, MaxLmCalls)

SpecLmOne == InitLmOne /\ [][NextLm]_vars

\* A thread that can take latch_ or has been notified runs in the end; the
\* callers are free to make no further call.
LmFairness ==
    \A t \in 1..MaxFairTxn : WF_vars(EnterLatch(t)) /\ WF_vars(Wake(t))

\* The lockers of one rid.
InitLmFair == InitLmWith(1..MaxFairTxn, {1}, MaxFairCalls)

SpecLmFair == InitLmFair /\ [][NextLm]_vars /\ LmFairness

LmTypeOK ==
    /\ txn_state \in [Txns -> TransactionStates]
    /\ isolation_level \in [Txns -> IsolationLevels]
    /\ shared_lock_set \in [Txns -> SUBSET Rids]
    /\ exclusive_lock_set \in [Txns -> SUBSET Rids]
    /\ lm_ret \in [Txns -> {"none", "true", "false", "throw"}]
    /\ shrunk \subseteq Txns
    /\ lm_calls \in Nat
    /\ \A t \in Txns :
          /\ thread[t].pc \in {"idle", "latch", "wait"}
          /\ thread[t].pc = "idle" => thread[t] = Idle
          /\ thread[t].pc # "idle" =>
                thread[t].op \in LockOps /\ thread[t].rid \in Rids
    /\ \A r \in Rids : \A i \in 1..Len(lock_table[r]) :
          /\ lock_table[r][i].txn_id \in Txns
          /\ lock_table[r][i].lock_mode \in {"SHARED", "EXCLUSIVE"}

(***************************************************************************)
(* Vocabulary of the lock manager claims.                                  *)
(***************************************************************************)
\* The transaction with the smallest txn id.
Oldest == CHOOSE t \in Txns : \A u \in Txns : t <= u

\* The position of the last request of t in queue q; 0 if none.  While a
\* LockShared or LockExclusive call of t is past latch_, this is the request
\* the call appended.
LastOwn(q, t) ==
    IF \E i \in 1..Len(q) : q[i].txn_id = t
    THEN CHOOSE i \in 1..Len(q) :
            /\ q[i].txn_id = t
            /\ \A j \in (i + 1)..Len(q) : q[j].txn_id # t
    ELSE 0

\* What the next step of the thread of t, inside a lock call, leaves.
StepOf(t) ==
    IF thread[t].pc = "latch" THEN Latched(LmNow, t) ELSE Awake(LmNow, t)

\* In state s the lock call of t has returned true.
ReturnedTrue(s, t) == s.thread[t].pc = "idle" /\ s.lm_ret[t] = "true"

Admissible(t, op, r) ==
    /\ thread[t].pc = "idle"
    /\ txn_state[t] = "GROWING"
    /\ ~(op = "shared" /\ isolation_level[t] = "READ_UNCOMMITTED")
    /\ op = "upgrade" => UpgradeAllowed(LmNow, t, r)

\* C19: under fair scheduling of the threads the lock call of the oldest
\* transaction returns true: a call it makes while GROWING (lock_shared not
\* under READ_UNCOMMITTED) either returns true at once or goes on to latch_,
\* and once it is past its first tests it returns true in the end, whatever
\* the other transactions hold, request or do meanwhile.
C19_OldestNotStarved ==
    /\ [](\A op \in LockOps, r \in Rids :
            Admissible(Oldest, op, r) =>
                LET res == LockCheck(LmNow, Oldest, op, r) IN
                \/ ReturnedTrue(res, Oldest)
                \/ res.thread[Oldest].pc = "latch")
    /\ (thread[Oldest].pc # "idle") ~> ReturnedTrue(LmNow, Oldest)

\* The oldest transaction was granted an exclusive lock behind the granted
\* request of a younger one.
C19_Witness ==
    /\ ReturnedTrue(LmNow, Oldest)
    /\ \E r \in Rids :
          \E i, j \in 1..Len(lock_table[r]) :
              /\ i < j
              /\ lock_table[r][i].txn_id > Oldest
              /\ lock_table[r][i].granted
              /\ lock_table[r][j].txn_id = Oldest
              /\ lock_table[r][j].lock_mode = "EXCLUSIVE"
              /\ lock_table[r][j].granted

\* C20: when lock_exclusive of t takes latch_, every transaction with a
\* larger txn id whose request precedes the request of t in the rid queue is
\* ABORTED afterwards, and lock_exclusive returns true only if no request of
\* a transaction with a smaller txn id precedes the request of t.
C20_ExclusiveWoundWait ==
    \A t \in Txns :
        (thread[t].pc # "idle" /\ thread[t].op = "exclusive") =>
            LET res == StepOf(t)
                q == res.lock_table[thread[t].rid]
                ahead == 1..(LastOwn(q, t) - 1)
            IN /\ thread[t].pc = "latch" =>
                     \A i \in ahead :
                         q[i].txn_id > t => res.txn_state[q[i].txn_id] = "ABORTED"
               /\ ReturnedTrue(res, t) =>
                     \A i \in ahead : q[i].txn_id >= t

\* The transactions the step from the current state to res sets ABORTED.
NewlyAborted(res) ==
    {u \in Txns : txn_state[u] # "ABORTED" /\ res.txn_state[u] = "ABORTED"}

\* C21: a step of lock_shared of t inside latch_ ends in cv_.wait only if
\* an EXCLUSIVE request of an older transaction is ahead of the request of
\* t, and sets ABORTED only younger transactions with an EXCLUSIVE request
\* ahead of it; when every request of another transaction ahead of it is
\* SHARED, the call returns true and sets nobody ABORTED.
C21_SharedWaitsForExclusiveOnly ==
    \A t \in Txns :
        (thread[t].pc # "idle" /\ thread[t].op = "shared") =>
            LET res == StepOf(t)
                q == res.lock_table[thread[t].rid]
                ahead == 1..(LastOwn(q, t) - 1)
            IN /\ res.thread[t].pc = "wait" =>
                     \E i \in ahead :
                         q[i].txn_id < t /\ q[i].lock_mode = "EXCLUSIVE"
               /\ \A u \in NewlyAborted(res) :
                     /\ u > t
                     /\ \E i \in ahead :
                           q[i].txn_id = u /\ q[i].lock_mode = "EXCLUSIVE"
               /\ ( /\ \A i \in ahead :
                          q[i].txn_id # t => q[i].lock_mode = "SHARED"
                    /\ thread[t].pc = "latch" \/ txn_state[t] # "ABORTED" )
                  => ReturnedTrue(res, t) /\ NewlyAborted(res) = {}

\* Every transaction holds a granted shared lock on one rid, a younger one
\* ahead of an older one in the queue.
C21_Witness ==
    \E r \in Rids :
        LET q == lock_table[r] IN
        /\ \A t \in Txns :
              /\ txn_state[t] = "GROWING"
              /\ r \in shared_lock_set[t]
              /\ \E i \in 1..Len(q) : q[i].txn_id = t
        /\ \A i \in 1..Len(q) : q[i].lock_mode = "SHARED" /\ q[i].granted
        /\ Len(q) >= 2
        /\ q[1].txn_id > q[2].txn_id

\* C22: lock_shared, lock_exclusive and lock_upgrade of a transaction whose
\* state is ABORTED return false before latch_ and leave everything else as
\* it is: the queues, the lock sets and the state of every transaction, and
\* the threads waiting in cv_.wait.
C22_AbortedCallerRefused ==
    \A t \in Txns :
        (thread[t].pc = "idle" /\ txn_state[t] = "ABORTED") =>
            \A op \in LockOps, r \in Rids :
                LockCheck(LmNow, t, op, r) = [LmNow EXCEPT !.lm_ret[t] = "false"]

\* An ABORTED transaction with a request in a queue another transaction
\* waits on is about to call.
C22_Witness ==
    \E t \in Txns, r \in Rids :
        /\ thread[t].pc = "idle"
        /\ txn_state[t] = "ABORTED"
        /\ lm_calls > 0
        /\ \E i \in 1..Len(lock_table[r]) : lock_table[r][i].txn_id = t
        /\ \E u \in Txns \ {t} : thread[u].pc = "wait" /\ thread[u].rid = r

\* C23: under READ_UNCOMMITTED lock_shared of a transaction that is not
\* ABORTED sets it ABORTED, raises the typed abort instead of returning
\* false, and appends no request to a queue.
C23_SharedOnReadUncommitted ==
    \A t \in Txns :
        ( /\ thread[t].pc = "idle"
          /\ txn_state[t] # "ABORTED"
          /\ isolation_level[t] = "READ_UNCOMMITTED" ) =>
            \A r \in Rids :
                LET res == LockSharedCheck(LmNow, t, r) IN
                /\ res.txn_state[t] = "ABORTED"
                /\ res.lm_ret[t] = "throw"
                /\ res.thread[t] = Idle
                /\ res.lock_table = lock_table

\* unlock(t, r) finds a lock of t on r and its request: it releases.
Releases(t, r) ==
    /\ r \in shared_lock_set[t] \cup exclusive_lock_set[t]
    /\ \E i \in 1..Len(lock_table[r]) : lock_table[r][i].txn_id = t

\* C24: unlock(t, r), with t in any of the four transaction states, changes
\* the state of t only from GROWING to SHRINKING and only when it releases
\* a lock; then it does so under REPEATABLE_READ always, and under the
\* other levels exactly when r is in the exclusive lock set of t.
C24_UnlockTransitions ==
    \A t \in Txns :
        thread[t].pc = "idle" =>
            \A r \in Rids, st \in TransactionStates :
                LET res == Unlock([LmNow EXCEPT !.txn_state[t] = st], t, r)
                    shrinks ==
                        /\ st = "GROWING"
                        /\ Releases(t, r)
                        /\ \/ isolation_level[t] = "REPEATABLE_READ"
                           \/ r \in exclusive_lock_set[t]
                IN /\ res.txn_state[t] = IF shrinks THEN "SHRINKING" ELSE st
                   /\ \A u \in Txns \ {t} : res.txn_state[u] = txn_state[u]
                   /\ Releases(t, r) => res.lm_ret[t] = "true"

\* A transaction below REPEATABLE_READ has released an exclusive lock, and
\* a GROWING one below REPEATABLE_READ holding only a shared lock is about
\* to call.
C24_Witness ==
    /\ lm_calls > 0
    /\ \E t \in shrunk : isolation_level[t] # "REPEATABLE_READ"
    /\ \E u \in Txns, r \in Rids :
          /\ thread[u].pc = "idle"
          /\ isolation_level[u] # "REPEATABLE_READ"
          /\ txn_state[u] = "GROWING"
          /\ Releases(u, r)
          /\ r \notin exclusive_lock_set[u]

\* C25: lock_upgrade of t on a rid it holds a shared lock on returns true
\* only when the rid queue holds no request of an older transaction and
\* every younger transaction with a request in it is ABORTED, wherever the
\* requests stand; rid has then moved from the shared to the exclusive
\* lock set of t.
C25_UpgradeWoundWait ==
    \A t \in Txns :
        (thread[t].pc # "idle" /\ thread[t].op = "upgrade") =>
            LET r == thread[t].rid
                res == StepOf(t)
                q == res.lock_table[r]
            IN ReturnedTrue(res, t) =>
                  /\ \A i \in 1..Len(q) :
                        /\ q[i].txn_id >= t
                        /\ q[i].txn_id > t =>
                              res.txn_state[q[i].txn_id] = "ABORTED"
                  /\ r \notin res.shared_lock_set[t]
                  /\ r \in res.exclusive_lock_set[t]

(***************************************************************************)
(* Part 5: an LRUReplacer on its own.  Victim, Pin and Unpin run under     *)
(* lock_, so each call is one atomic step; the ids are any frame ids, not  *)
(* only those of a pool of capacity frames.                                *)
(***************************************************************************)
RepIds == 0..MaxRepId

\* The ids the replacer tracks.
Tracked == {rep_list[i] : i \in 1..Len(rep_list)}

RepVictim ==
    LET v == Victim(rep_list) IN
    /\ rep_calls < MaxRepCalls
    /\ rep_calls' = rep_calls + 1
    /\ rep_list' = v.lru_list
    /\ rep_removed' = IF v.ok THEN rep_removed \cup {v.frame_id} ELSE rep_removed
    /\ UNCHANGED <<rep_capacity, rep_stamp, bpiVars, parVars, htVars, lmVars, exVars>>

RepPin(frame_id) ==
    /\ rep_calls < MaxRepCalls
    /\ rep_calls' = rep_calls + 1
    /\ rep_list' = Pin(rep_list, frame_id)
    /\ rep_removed' = IF frame_id \in Tracked
                      THEN rep_removed \cup {frame_id} ELSE rep_removed
    /\ UNCHANGED <<rep_capacity, rep_stamp, bpiVars, parVars, htVars, lmVars, exVars>>

RepUnpin(frame_id) ==
    /\ rep_calls < MaxRepCalls
    /\ rep_calls' = rep_calls + 1
    /\ rep_list' = Unpin(rep_list, frame_id, rep_capacity)
    /\ rep_stamp' = IF frame_id \in Tracked
                    THEN rep_stamp
                    ELSE [rep_stamp EXCEPT ![frame_id] = rep_calls + 1]
    /\ rep_removed' = rep_removed \ {frame_id}
    /\ UNCHANGED <<rep_capacity, bpiVars, parVars, htVars, lmVars, exVars>>

InitRep ==
    /\ ConstructInstance({1}, {1})
    /\ NoParallelPool
    /\ NoHashTable
    /\ NoLockManager
    /\ NoExecutor
    /\ rep_capacity \in 1..MaxRepCapacity
    /\ rep_list = <<>>
    /\ rep_stamp = [x \in RepIds |-> 0]
    /\ rep_removed = {}
    /\ rep_calls = 0

NextRep ==
    \/ RepVictim
    \/ \E x \in RepIds : RepPin(x)
    \/ \E x \in RepIds : RepUnpin(x)

SpecRep == InitRep /\ [][NextRep]_vars

\* C26: on the replacer alone, after any calls of Pin, Unpin and Victim:
\* Victim returns false iff no id is tracked and otherwise takes out and
\* returns the tracked id that Unpin inserted first; Unpin of a tracked id
\* leaves the list as it is; Pin takes out its id and nothing else; an id
\* taken out by Pin or Victim and not unpinned since is not tracked; at most
\* capacity ids are tracked and none is tracked twice.
C26_LruReplacer ==
    LET v == Victim(rep_list) IN
    /\ v.ok <=> Tracked # {}
    /\ v.ok =>
          /\ v.frame_id \in Tracked
          /\ \A x \in Tracked : rep_stamp[v.frame_id] <= rep_stamp[x]
          /\ v.lru_list = SelectSeq(rep_list, LAMBDA x : x # v.frame_id)
    /\ ~v.ok => v.lru_list = rep_list
    /\ \A x \in Tracked : Unpin(rep_list, x, rep_capacity) = rep_list
    /\ \A x \in RepIds :
          Pin(rep_list, x) = SelectSeq(rep_list, LAMBDA y : y # x)
    /\ rep_removed \cap Tracked = {}
    /\ Len(rep_list) <= rep_capacity
    /\ \A i, j \in 1..Len(rep_list) : rep_list[i] = rep_list[j] => i = j

\* The replacer is full, an id has been taken out, and the id in front was
\* unpinned after the one at the back.
C26_Witness ==
    /\ Len(rep_list) = rep_capacity
    /\ Len(rep_list) >= 2
    /\ rep_removed # {}
    /\ rep_stamp[rep_list[1]] > rep_stamp[rep_list[Len(rep_list)]]

\* The call that returned r took the frame at the front of the free list
\* and evicted nothing: the resident pages stay in the page table with
\* their frames, and nothing is written to disk.
TookFreeFrame(r) ==
    /\ r.ok
    /\ r.from = "free"
    /\ r.frame_id = Head(free_list)
    /\ r.free_list = Tail(free_list)
    /\ r.evicted = INVALID_PAGE_ID
    /\ \A p \in DOMAIN page_table :
          /\ p \in DOMAIN r.page_table
          /\ p # r.page_id => r.page_table[p] = page_table[p]
    /\ r.disk = disk

\* C27: while the free list holds a frame, new_page and fetch_page of a
\* page that is not resident take the frame at its front and evict nothing;
\* a frame on the free list holds no resident page.
C27_FreeListFirst ==
    /\ \A i \in 1..Len(free_list) :
          /\ pages[free_list[i]].page_id = INVALID_PAGE_ID
          /\ \A p \in DOMAIN page_table : page_table[p] # free_list[i]
    /\ free_list # <<>> =>
          /\ TookFreeFrame(NewPgImp)
          /\ \A p \in PageIds : ~Resident(p) => TookFreeFrame(FetchPgImp(p))

\* The free list holds a frame while the replacer holds the frame of a
\* resident page, which is left alone.
C27_Witness ==
    /\ free_list # <<>>
    /\ \E i \in 1..Len(lru_list) :
          /\ pages[lru_list[i]].page_id # INVALID_PAGE_ID
          /\ ~InSeq(free_list, lru_list[i])

(***************************************************************************)
(* Merge, call by call.                                                    *)
(***************************************************************************)
\* The tables Merge is called on: the table between calls, and the table as
\* Remove hands it over, the pair taken out of the key's bucket.
MergeInputs(key) ==
    {HtNow} \cup
    {[HtNow EXCEPT !.bucket_pages[KeyToPageId(key, dir_page)] =
                      BucketRemove(@, key, v).bucket] : v \in Values}

\* Merge refuses on h: local depth 0, an image of another local depth, or a
\* target bucket that is not empty.
MergeRefuses(h, key) ==
    LET d == h.dir_page
        t == KeyToDirectoryIndex(key, d)
    IN \/ d.local_depths[t] = 0
       \/ d.local_depths[GetSplitImageIndex(d, t)] # d.local_depths[t]
       \/ ~IsEmpty(h.bucket_pages[d.bucket_page_ids[t]])

\* m is h with the target bucket of key merged into its split image.
Merged(h, key, m) ==
    LET d == h.dir_page
        t == KeyToDirectoryIndex(key, d)
        p == d.bucket_page_ids[t]
        q == d.bucket_page_ids[GetSplitImageIndex(d, t)]
        l == d.local_depths[t]
        depth(i) == IF d.bucket_page_ids[i] \in {p, q} THEN l - 1 ELSE d.local_depths[i]
        g == m.dir_page.global_depth
    IN /\ p # q
       /\ DOMAIN m.bucket_pages = DOMAIN h.bucket_pages \ {p}
       /\ \A x \in DOMAIN m.bucket_pages : m.bucket_pages[x] = h.bucket_pages[x]
       /\ g \in 0..d.global_depth
       /\ \A i \in 0..(Size(m.dir_page) - 1) :
             /\ m.dir_page.local_depths[i] = depth(i)
             /\ m.dir_page.bucket_page_ids[i] =
                   IF d.bucket_page_ids[i] \in {p, q} THEN q ELSE d.bucket_page_ids[i]
       /\ \E i \in 0..(Size(m.dir_page) - 1) : m.dir_page.local_depths[i] = g
       /\ \A g1 \in (g + 1)..d.global_depth :
             \A i \in 0..(2 ^ g1 - 1) : depth(i) < g1

\* C28: merge(key) changes nothing when the target bucket has local depth 0,
\* when its split image has another local depth, or when the target bucket
\* is not empty; otherwise it deletes the target bucket page, leaves every
\* other bucket page as it was, makes every directory slot that named the
\* target or its image name the image with local depth l - 1, leaves the
\* other slots alone, and lowers the global depth step by step, stopping at
\* the first depth that some slot's local depth equals.
C28_Merge ==
    bucket_array_size > 0 =>
       \A key \in Keys : \A h \in MergeInputs(key) :
          IF MergeRefuses(h, key)
          THEN Merge(h, key) = h
          ELSE Merged(h, key, Merge(h, key))

\* One key's merge is refused at a local depth above 0, another key's merge
\* deletes its bucket and lowers the global depth.
C28_Witness ==
    /\ bucket_array_size > 0
    /\ \E key \in Keys :
          /\ MergeRefuses(HtNow, key)
          /\ LocalDepthOf(HtNow, key) > 0
    /\ \E key \in Keys :
          /\ ~MergeRefuses(HtNow, key)
          /\ Merge(HtNow, key).dir_page.global_depth < dir_page.global_depth

\* C29: a remove that returns false (the pair is not present) leaves the
\* global depth and every directory slot's bucket id and local depth as
\* they were, also when the bucket it looked in is empty: merge is invoked
\* only by a remove that succeeded and left the bucket empty.
C29_FailedRemoveKeepsDirectory ==
    bucket_array_size > 0 =>
       \A key \in Keys, value \in Values :
          ~Remove(HtNow, key, value).ok =>
             Remove(HtNow, key, value).h.dir_page = dir_page

(***************************************************************************)
(* Part 6: the ExtendibleHashTable called by several threads at once.      *)
(* Buckets have two slots and each key is stored with itself as its value. *)
(* The table does not tell its callers apart: ht_thread is the bag of the  *)
(* calls under way, each with the position of its thread, and table_latch  *)
(* is the reader count and the writer flag of table_latch_.  A thread      *)
(* takes one step per latched section: a call starts with                  *)
(* table_latch_.RLock() and the reading of the directory (a thread that    *)
(* has called but not yet passed RLock has done nothing); the ...Page step *)
(* is the section under the bucket page's latch up to RUnlock; WLock takes *)
(* table_latch_ as writer; the ...Body step is SplitInsert or Merge up to  *)
(* WUnlock.  live holds the pairs whose insert has returned true, no       *)
(* remove of the pair having started since and none having yet to look     *)
(* into its bucket at the return.                                          *)
(***************************************************************************)
ConcKeys == 0..MaxConcKey

\* The calls under way.
HtCalls == BagToSet(ht_thread)

\* The call c goes on as the call d.
Moves(c, d) == ht_thread' = (ht_thread (-) SetToBag({c})) (+) SetToBag({d})

\* The call c returns.
Returns(c) == ht_thread' = ht_thread (-) SetToBag({c})

\* The bytes of page p as FetchPage hands them out; a page that has been
\* deleted reads as zeroes.
PageOf(p) == IF p \in DOMAIN bucket_pages THEN bucket_pages[p] ELSE EmptyBucket

ConcFrame == UNCHANGED <<bucket_array_size, s3, ht_pins, bpiVars, parVars, lmVars, repVars, exVars>>

\* ReaderWriterLatch: readers enter while no writer is in, a writer enters
\* when nobody is in.
RLock ==
    /\ ~table_latch.writer
    /\ table_latch' = [table_latch EXCEPT !.readers = @ + 1]

RUnlock == table_latch' = [table_latch EXCEPT !.readers = @ - 1]

WLock ==
    /\ ~table_latch.writer
    /\ table_latch.readers = 0
    /\ table_latch' = [table_latch EXCEPT !.writer = TRUE]

WUnlock == table_latch' = [table_latch EXCEPT !.writer = FALSE]

\* FetchDirectoryPage, KeyToPageId, FetchBucketPage under the reader latch:
\* the call stands before the bucket page's latch.
Entered(pc, key) ==
    [pc |-> pc, key |-> key, bucket_page_id |-> KeyToPageId(key, dir_page),
     success |-> FALSE]

\* A thread calls insert(key, key), remove(key, key) or get(key): op is
\* "InsertPage", "RemovePage" or "GetValuePage".
HtCall(op, key) ==
    /\ BagCardinality(ht_thread) < MaxHtThread
    /\ ht_calls < MaxConcCalls
    /\ RLock
    /\ ht_calls' = ht_calls + 1
    /\ ht_thread' = ht_thread (+) SetToBag({Entered(op, key)})
    /\ live' = IF op = "RemovePage" THEN live \ {<<key, key>>} ELSE live
    /\ UNCHANGED <<dir_page, bucket_pages>>
    /\ ConcFrame

\* return Insert(transaction, key, value) at the end of SplitInsert.
InsertAgain(c) ==
    /\ c.pc = "Insert"
    /\ RLock
    /\ Moves(c, Entered("InsertPage", c.key))
    /\ UNCHANGED <<dir_page, bucket_pages, live, ht_calls>>
    /\ ConcFrame

\* SplitInsert and Merge begin: table_latch_.WLock().
BeginWrite(c) ==
    /\ c.pc \in {"SplitInsert", "Merge"}
    /\ WLock
    /\ Moves(c, [c EXCEPT !.pc = IF @ = "Merge" THEN "MergeBody" ELSE "SplitInsertBody"])
    /\ UNCHANGED <<dir_page, bucket_pages, live, ht_calls>>
    /\ ConcFrame

\* What bucket->GetValue finds for the call c.
GetValuePageResult(c) == BucketGetValue(PageOf(c.bucket_page_id), c.key)

\* GetValue from page->RLatch() to the return.
GetValuePage(c) ==
    /\ c.pc = "GetValuePage"
    /\ RUnlock
    /\ Returns(c)
    /\ UNCHANGED <<dir_page, bucket_pages, live, ht_calls>>
    /\ ConcFrame

\* The removes of key that have yet to look into the bucket.
Removing(key) == {c \in HtCalls : c.pc = "RemovePage" /\ c.key = key}

\* Insert from page->WLatch(): the pair goes into a bucket that is not full
\* and the call returns, or the call goes on to SplitInsert.
InsertPage(c) ==
    LET r == BucketInsert(PageOf(c.bucket_page_id), c.key, c.key)
    IN /\ c.pc = "InsertPage"
       /\ RUnlock
       /\ IF ~IsFull(PageOf(c.bucket_page_id))
          THEN /\ bucket_pages' = Put(bucket_pages, c.bucket_page_id, r.bucket)
               /\ Returns(c)
               /\ live' = IF r.ok /\ Removing(c.key) = {}
                          THEN live \cup {<<c.key, c.key>>}
                          ELSE live
          ELSE /\ Moves(c, [c EXCEPT !.pc = "SplitInsert",
                                     !.bucket_page_id = INVALID_PAGE_ID])
               /\ UNCHANGED <<bucket_pages, live>>
       /\ UNCHANGED <<dir_page, ht_calls>>
       /\ ConcFrame

\* SplitInsert under table_latch_ held as writer: false at the depth limit,
\* else the bucket of key is split and Insert is called again.
SplitInsertBody(c) ==
    /\ c.pc = "SplitInsertBody"
    /\ WUnlock
    /\ IF LocalDepthOf(HtNow, c.key) >= MAX_DEPTH
       THEN /\ Returns(c)
            /\ UNCHANGED <<dir_page, bucket_pages>>
       ELSE /\ Moves(c, [c EXCEPT !.pc = "Insert"])
            /\ dir_page' = SplitBucket(HtNow, c.key).dir_page
            /\ bucket_pages' = SplitBucket(HtNow, c.key).bucket_pages
    /\ UNCHANGED <<live, ht_calls>>
    /\ ConcFrame

\* Remove from page->WLatch(): the pair is taken out; the call returns, or
\* goes on to Merge when the bucket is empty.
RemovePage(c) ==
    LET r == BucketRemove(PageOf(c.bucket_page_id), c.key, c.key)
    IN /\ c.pc = "RemovePage"
       /\ RUnlock
       /\ bucket_pages' = Put(bucket_pages, c.bucket_page_id, r.bucket)
       /\ IF IsEmpty(r.bucket)
          THEN Moves(c, [c EXCEPT !.pc = "Merge",
                                  !.bucket_page_id = INVALID_PAGE_ID,
                                  !.success = r.ok])
          ELSE Returns(c)
       /\ UNCHANGED <<dir_page, live, ht_calls>>
       /\ ConcFrame

\* Faulty variant of MergeBody: the bucket is merged without the test under
\* the writer latch that it is still empty.
MergeBody_NoRecheck(c) ==
    /\ c.pc = "MergeBody"
    /\ WUnlock
    /\ dir_page' = Merge_NoEmptyTest(HtNow, c.key).dir_page
    /\ bucket_pages' = Merge_NoEmptyTest(HtNow, c.key).bucket_pages
    /\ Returns(c)
    /\ UNCHANGED <<live, ht_calls>>
    /\ ConcFrame

\* Merge under table_latch_ held as writer; Remove then returns success.
MergeBody(c) ==
    /\ c.pc = "MergeBody"
    /\ WUnlock
    /\ dir_page' = Merge(HtNow, c.key).dir_page
    /\ bucket_pages' = Merge(HtNow, c.key).bucket_pages
    /\ Returns(c)
    /\ UNCHANGED <<live, ht_calls>>
    /\ ConcFrame

\* Two slots per bucket: a split ends as soon as the keys part ways.
InitConc == ConstructTable({2})

NextConc ==
    \/ \E key \in ConcKeys : HtCall("InsertPage", key)
    \/ \E key \in ConcKeys : HtCall("RemovePage", key)
    \/ \E key \in ConcKeys : HtCall("GetValuePage", key)
    \/ \E c \in HtCalls : InsertAgain(c)
    \/ \E c \in HtCalls : BeginWrite(c)
    \/ \E c \in HtCalls : GetValuePage(c)
    \/ \E c \in HtCalls : InsertPage(c)
    \/ \E c \in HtCalls : SplitInsertBody(c)
    \/ \E c \in HtCalls : RemovePage(c)
    \/ \E c \in HtCalls : MergeBody(c)

SpecHtConc == InitConc /\ [][NextConc]_vars

\* The calls holding table_latch_ as readers, by where they stand.
InReadSection(c) == c.pc \in {"InsertPage", "RemovePage", "GetValuePage"}

\* The call holding table_latch_ as writer, by where it stands.
InWriteSection(c) == c.pc \in {"SplitInsertBody", "MergeBody"}

\* The number of calls under way that satisfy P.
NumCalls(P(_)) ==
    BagCardinality([c \in {x \in HtCalls : P(x)} |-> ht_thread[c]])

ConcTypeOK ==
    /\ HtTypeOK
    /\ table_latch.readers \in 0..MaxHtThread
    /\ table_latch.writer \in BOOLEAN
    /\ BagCardinality(ht_thread) <= MaxHtThread
    /\ \A c \in HtCalls :
          /\ c.pc \in {"Insert", "InsertPage", "SplitInsert", "SplitInsertBody",
                       "RemovePage", "Merge", "MergeBody", "GetValuePage"}
          /\ c.key \in ConcKeys

\* C30: under every interleaving of insert, remove and get calls, a pair
\* whose insert returned true and of which no remove has started since is
\* found through the directory at every moment and is returned by every get
\* under way when it reads its bucket; a merge deletes only empty buckets,
\* keeps every live pair reachable, and changes nothing when an insert has
\* landed in the bucket since the emptying remove; and while a thread holds
\* the table latch as writer (split or merge) no thread is inside a get or
\* a fast-path insert or remove, and the directory slot of each of these
\* still names the bucket page they read from it.
C30_ConcurrentIndex ==
    /\ \A kv \in live : Gets(HtNow, kv[1], kv[2])
    /\ table_latch.readers = NumCalls(InReadSection)
    /\ NumCalls(InWriteSection) = IF table_latch.writer THEN 1 ELSE 0
    /\ table_latch.writer => table_latch.readers = 0
    /\ \A c \in HtCalls :
          LET m == Merge(HtNow, c.key) IN
          /\ (c.pc = "GetValuePage" /\ <<c.key, c.key>> \in live) =>
                InSeq(GetValuePageResult(c), c.key)
          /\ c.pc = "MergeBody" =>
                /\ \A p \in DOMAIN bucket_pages \ DOMAIN m.bucket_pages :
                      IsEmpty(bucket_pages[p])
                /\ \A kv \in live : Gets(m, kv[1], kv[2])
                /\ ~IsEmpty(bucket_pages[KeyToPageId(c.key, dir_page)]) => m = HtNow
          /\ InReadSection(c) =>
                /\ c.bucket_page_id = KeyToPageId(c.key, dir_page)
                /\ c.bucket_page_id \in DOMAIN bucket_pages

\* A remove has emptied its bucket and holds the table latch for the merge,
\* which only the emptiness test can refuse: an insert of the pair has
\* landed in the bucket in between and has returned true.
C30_Witness ==
    \E c \in HtCalls :
       /\ c.pc = "MergeBody"
       /\ c.success
       /\ <<c.key, c.key>> \in live
       /\ ~MergeRefuses([HtNow EXCEPT !.bucket_pages[KeyToPageId(c.key, dir_page)] =
                                         EmptyBucket], c.key)

(***************************************************************************)
(* The depths of the directory.                                            *)
(***************************************************************************)
\* 0 <= l <= G <= MAX_DEPTH for the local depth l of every slot.
DepthsBounded(d) ==
    /\ d.global_depth \in 0..MAX_DEPTH
    /\ \A i \in 0..(Size(d) - 1) : d.local_depths[i] \in 0..d.global_depth

\* The slots naming a bucket are those that agree on the low l bits, l the
\* local depth each of them records.
DirectoryConsistent(d) ==
    \A p \in {d.bucket_page_ids[i] : i \in 0..(Size(d) - 1)} :
       LET slots == SlotsOf(d, p)
           i == CHOOSE x \in slots : TRUE
           l == d.local_depths[i]
       IN /\ slots = {j \in 0..(Size(d) - 1) : j % (2 ^ l) = i % (2 ^ l)}
          /\ \A j \in slots : d.local_depths[j] = l

\* C31: in every state the completed inserts and removes lead to, every
\* slot's local depth l satisfies 0 <= l <= G and the global depth G
\* satisfies 0 <= G <= 9, and the directory is consistent, every slot naming
\* a bucket page that exists; an insert of a new pair that returns false has
\* found its bucket full at local depth 9 and stays within the bounds.
C31_DepthBounds ==
    bucket_array_size > 0 =>
       /\ DepthsBounded(dir_page)
       /\ DirectoryConsistent(dir_page)
       /\ \A i \in 0..(Size(dir_page) - 1) : dir_page.bucket_page_ids[i] \in DOMAIN bucket_pages
       /\ \A k \in Keys, v \in Values : \A r \in {Insert(HtNow, k, v)} :
             (~r.ok /\ <<k, v>> \notin live) =>
                /\ LocalDepthOf(r.h, k) = MAX_DEPTH
                /\ IsFull(r.h.bucket_pages[KeyToPageId(k, r.h.dir_page)])
                /\ r.h.dir_page.global_depth = MAX_DEPTH

\* The directory stands at global depth 9 after an insert that failed, and
\* the insert of another new pair into the full bucket at local depth 9
\* fails without a split.
C31_Witness ==
    /\ bucket_array_size > 0
    /\ dir_page.global_depth = MAX_DEPTH
    /\ \E k \in Keys, v \in Values :
          /\ <<k, v>> \notin live
          /\ LocalDepthOf(HtNow, k) = MAX_DEPTH
          /\ ~Insert(HtNow, k, v).ok
          /\ Insert(HtNow, k, v).splits = 0


\* C32: whenever unlock(t, r) returns true, the queue of r holds no request
\* of t afterwards and r is in neither lock set of t, whatever requests t
\* had in the queue; whenever it finds a request of t it notifies the
\* waiters of r; and it returns false only if the queue held no request
\* of t.
C32_UnlockReleasesAll ==
    \A t \in Txns, r \in Rids :
        thread[t].pc = "idle" =>
            \A res \in {Unlock(LmNow, t, r)} :
                /\ res.lm_ret[t] = "true" =>
                      /\ \A i \in 1..Len(res.lock_table[r]) :
                            res.lock_table[r][i].txn_id # t
                      /\ r \notin res.shared_lock_set[t]
                      /\ r \notin res.exclusive_lock_set[t]
                /\ res.lm_ret[t] = "false" =>
                      \A i \in 1..Len(lock_table[r]) : lock_table[r][i].txn_id # t
                /\ (res.lm_ret[t] = "true" /\ res.lock_table # lock_table) =>
                      \A u \in Txns \ {t} :
                          (thread[u].pc = "wait" /\ thread[u].rid = r) =>
                              res.thread[u].notified


(***************************************************************************)
(* Lockers of several rids under fair scheduling of their threads.         *)
(***************************************************************************)
\* The transactions of one run have one isolation level.
InitLmWound ==
    /\ InitLmWith(1..MaxWoundTxn, 1..MaxWoundRid, MaxWoundCalls)
    /\ \E l \in IsolationLevels : \A t \in 1..MaxWoundTxn : isolation_level[t] = l

\* As LmFairness: the threads run, the callers need not call again.
LmWoundFairness ==
    \A t \in 1..MaxWoundTxn : WF_vars(EnterLatch(t)) /\ WF_vars(Wake(t))

SpecLmWound == InitLmWound /\ [][NextLm]_vars /\ LmWoundFairness

\* The same lockers, scheduled in any way.
SpecLmRids == InitLmWound /\ [][NextLm]_vars

\* The thread of t is inside cv_.wait of the queue of some rid.
Blocked(t) == thread[t].pc = "wait"

\* C33: once the thread of a transaction that is not ABORTED is inside
\* cv_.wait of a lock call, then whenever the transaction is ABORTED with
\* its thread inside cv_.wait, the thread comes out and the call returns
\* false in the end, whether or not any transaction makes another lock
\* manager call.
C33_WoundedWaiterReturns ==
    \A t \in 1..MaxWoundTxn :
        []((Blocked(t) /\ txn_state[t] # "ABORTED") =>
              []((Blocked(t) /\ txn_state[t] = "ABORTED") =>
                    <>(thread[t].pc = "idle" /\ lm_ret[t] = "false")))


\* The thread of t sleeps in cv_.wait: it has not been notified.
Asleep(t) == thread[t].pc = "wait" /\ ~thread[t].notified

\* The requests NeedWait* of the call of t counts as to be waited for:
\* those of older transactions ahead of the first request of t in the queue
\* of its rid (the EXCLUSIVE ones only if the call is lock_shared).
WaitedFor(t) ==
    LET q == lock_table[thread[t].rid] IN
    {i \in Before(q, t) :
        /\ q[i].txn_id < t
        /\ thread[t].op = "shared" => q[i].lock_mode = "EXCLUSIVE"}

\* t sleeps behind a request of u.
WaitsFor(t, u) ==
    /\ Asleep(t)
    /\ \E i \in WaitedFor(t) : lock_table[thread[t].rid][i].txn_id = u

\* Every transaction of the set sleeps behind a request of another one of it.
Deadlocked(set) ==
    /\ set # {}
    /\ \A t \in set : \E u \in set \ {t} : WaitsFor(t, u)

\* The transaction with the smallest id among those not ABORTED.
OldestLive(t) ==
    /\ txn_state[t] # "ABORTED"
    /\ \A u \in Txns : txn_state[u] # "ABORTED" => t <= u

\* A thread sleeps only behind the request of an older transaction, and no
\* set of transactions is deadlocked.
WoundWait ==
    /\ \A t \in Txns : Asleep(t) => WaitedFor(t) # {}
    /\ \A set \in SUBSET Txns : ~Deadlocked(set)

\* C34 as stated: a thread sleeps inside a lock call only while a request
\* of a transaction with a smaller txn id precedes its own in the queue of
\* the rid, no set of transactions is deadlocked, and the transaction with
\* the smallest id among those not ABORTED never sleeps.
C34_Original ==
    /\ WoundWait
    /\ \A t \in Txns : OldestLive(t) => ~Asleep(t)

\* C34: a thread sleeps inside a lock call only while a request of a
\* transaction with a smaller txn id precedes its own in the queue of the
\* rid, no set of transactions is deadlocked, and the transaction with the
\* smallest id among those not ABORTED sleeps only behind requests of
\* ABORTED transactions that have not been unlocked.
C34_WoundWait ==
    /\ WoundWait
    /\ \A t \in Txns :
          (OldestLive(t) /\ Asleep(t)) =>
              \A i \in WaitedFor(t) :
                  txn_state[lock_table[thread[t].rid][i].txn_id] = "ABORTED"

\* Two transactions took two rids in opposite orders: the younger one
\* sleeps behind the older one on one rid, and the older one has its request
\* behind the younger one's on the other rid.
C34_Witness ==
    \E t, u \in Txns : \E r1, r2 \in Rids :
        /\ t < u /\ r1 # r2
        /\ WaitsFor(u, t) /\ thread[u].rid = r1
        /\ \E i, j \in 1..Len(lock_table[r2]) :
              /\ i < j
              /\ lock_table[r2][i].txn_id = u
              /\ lock_table[r2][j].txn_id = t


(***************************************************************************)
(* Part 7: the executors.  A transaction runs one executor at a time in    *)
(* its thread; Next of a delete or an update executor pulls a tuple from   *)
(* its child, a sequential scan, and Next of an insert executor puts a raw *)
(* tuple into the table.  A lock manager call inside Next may block, so    *)
(* Next goes on when the call has returned.  The table heap is the page    *)
(* store of the tuples: MarkDelete, UpdateTuple and InsertTuple fetch the  *)
(* page of the tuple and write the slot.                                   *)
(***************************************************************************)
NoExecutorRunning == [pc |-> "idle", plan |-> "none", rid |-> 0]

NoTuple == [allocated |-> FALSE, deleted |-> FALSE, data |-> 0]

\* TableIterator: a slot that holds a tuple not marked deleted.
Visible(r) == table_heap[r].allocated /\ ~table_heap[r].deleted

\* The executor of t takes up a tuple.
TakesUp(t) ==
    /\ executor[t].pc = "idle"
    /\ thread[t].pc = "idle"
    /\ txn_state[t] # "ABORTED"
    /\ ex_calls < MaxExecCalls
    /\ ex_calls' = ex_calls + 1
    /\ UNCHANGED lm_calls

\* SeqScanExecutor::Next as the child of a delete or an update executor, up
\* to the return of LockShared: no lock is asked for under READ_UNCOMMITTED.
SeqScanNext(t, plan, r) ==
    /\ TakesUp(t)
    /\ Visible(r)
    /\ LeaveLm(IF isolation_level[t] = "READ_UNCOMMITTED"
               THEN LmNow ELSE LockSharedCheck(LmNow, t, r))
    /\ executor' = [executor EXCEPT ![t] = [pc |-> "SeqScan", plan |-> plan, rid |-> r]]
    /\ UNCHANGED <<table_heap, index_entries>>

\* The lock call the delete and the insert executor make for rid r.
LockForWrite(s, t, r) ==
    IF IsSharedLocked(s, t, r)
    THEN LockUpgradeCheck(s, t, r)
    ELSE LockExclusiveCheck(s, t, r)

\* The executor of t is at pc and its lock manager call, if any, is over.
Resumes(t, pc) ==
    /\ executor[t].pc = pc
    /\ thread[t].pc = "idle"
    /\ UNCHANGED <<lm_calls, ex_calls>>

\* Next ends: by return false, or by TransactionAbortException(DEADLOCK).
EndsNext(t) == executor' = [executor EXCEPT ![t] = NoExecutorRunning]

\* TableHeap::MarkDelete, then the lock call of DeleteExecutor::Next.
MarkDeleteThenLock(s, t, r) ==
    IF ~Visible(r)
    THEN /\ LeaveLm(s)
         /\ EndsNext(t)
         /\ UNCHANGED <<table_heap, index_entries>>
    ELSE /\ table_heap' = [table_heap EXCEPT ![r].deleted = TRUE]
         /\ LeaveLm(LockForWrite(s, t, r))
         /\ executor' = [executor EXCEPT ![t].pc = "Delete"]
         /\ UNCHANGED index_entries

\* TableHeap::UpdateTuple, then InsertEntry into the indexes: the whole of
\* UpdateExecutor::Next for one tuple.
UpdateTupleThenIndex(s, t, r) ==
    /\ LeaveLm(s)
    /\ EndsNext(t)
    /\ IF ~Visible(r)
       THEN UNCHANGED <<table_heap, index_entries>>
       ELSE /\ table_heap' = [table_heap EXCEPT ![r].data = (@ + 1) % (MaxData + 1)]
            /\ index_entries' = index_entries \cup {r}

\* SeqScanExecutor::Next after LockShared (Unlock under READ_COMMITTED), and
\* what the parent does with the tuple up to its own lock call.
SeqScanReturned(t) ==
    /\ Resumes(t, "SeqScan")
    /\ LET r == executor[t].rid
           locked == \/ isolation_level[t] = "READ_UNCOMMITTED"
                     \/ lm_ret[t] = "true"
           s == IF isolation_level[t] = "READ_COMMITTED"
                THEN Unlock(LmNow, t, r) ELSE LmNow
       IN IF ~locked \/ (isolation_level[t] = "READ_COMMITTED" /\ s.lm_ret[t] # "true")
          THEN /\ LeaveLm(IF locked THEN s ELSE LmNow)
               /\ EndsNext(t)
               /\ UNCHANGED <<table_heap, index_entries>>
          ELSE IF executor[t].plan = "Delete"
               THEN MarkDeleteThenLock(s, t, r)
               ELSE UpdateTupleThenIndex(s, t, r)

\* DeleteExecutor::Next after its lock call: DeleteEntry from the indexes.
DeleteLocked(t) ==
    /\ Resumes(t, "Delete")
    /\ EndsNext(t)
    /\ index_entries' = IF lm_ret[t] = "true"
                        THEN index_entries \ {executor[t].rid} ELSE index_entries
    /\ LeaveLm(LmNow)
    /\ UNCHANGED table_heap

\* InsertExecutor::Next: TableHeap::InsertTuple into a free slot, then the
\* lock call for the new rid.
InsertNext(t) ==
    /\ TakesUp(t)
    /\ IF \A r \in Rids : table_heap[r].allocated
       THEN /\ LeaveLm(LmNow)
            /\ UNCHANGED <<table_heap, index_entries, executor>>
       ELSE LET r == CHOOSE x \in Rids :
                        /\ ~table_heap[x].allocated
                        /\ \A y \in Rids : ~table_heap[y].allocated => x <= y
            IN /\ table_heap' = [table_heap EXCEPT ![r].allocated = TRUE]
               /\ LeaveLm(LockForWrite(LmNow, t, r))
               /\ executor' = [executor EXCEPT ![t] = [pc |-> "Insert", plan |-> "Insert", rid |-> r]]
               /\ UNCHANGED index_entries

\* InsertExecutor::Next after its lock call: InsertEntry into the indexes,
\* then Unlock unless the isolation level is REPEATABLE_READ.
InsertLocked(t) ==
    /\ Resumes(t, "Insert")
    /\ EndsNext(t)
    /\ UNCHANGED table_heap
    /\ IF lm_ret[t] # "true"
       THEN LeaveLm(LmNow) /\ UNCHANGED index_entries
       ELSE /\ index_entries' = index_entries \cup {executor[t].rid}
            /\ LeaveLm(IF isolation_level[t] # "REPEATABLE_READ"
                       THEN Unlock(LmNow, t, executor[t].rid) ELSE LmNow)

InitExec ==
    /\ ConstructLockManager(1..MaxExecTxn, 1..MaxExecRid, 0)
    /\ table_heap \in [1..MaxExecRid -> {NoTuple, [NoTuple EXCEPT !.allocated = TRUE]}]
    /\ index_entries = {r \in 1..MaxExecRid : table_heap[r].allocated}
    /\ executor = [t \in 1..MaxExecTxn |-> NoExecutorRunning]
    /\ ex_calls = 0

NextExec ==
    \/ \E t \in Txns, r \in Rids : SeqScanNext(t, "Delete", r)
    \/ \E t \in Txns, r \in Rids : SeqScanNext(t, "Update", r)
    \/ \E t \in Txns : SeqScanReturned(t)
    \/ \E t \in Txns : DeleteLocked(t)
    \/ \E t \in Txns : InsertNext(t)
    \/ \E t \in Txns : InsertLocked(t)
    \/ \E t \in Txns : EnterLatch(t)
    \/ \E t \in Txns : Wake(t)
    \/ \E t \in Txns : SpuriousWake(t)

SpecExec == InitExec /\ [][NextExec]_vars

\* t holds the exclusive lock of r: r is in its exclusive lock set and its
\* last lock manager call, which is over, returned true.
HoldsExclusive(t, r) ==
    /\ r \in exclusive_lock_set[t]
    /\ thread[t].pc = "idle"
    /\ lm_ret[t] = "true"

\* C35: a step of the executor of a transaction that writes the slot of a
\* tuple that was in the table heap before (delete, update), or that adds
\* the index entry of a rid (insert), is taken with the exclusive lock of
\* the rid held by the transaction.
C35_LockBeforeWrite ==
    [][\A t \in Txns, r \in Rids :
          (/\ executor'[t] # executor[t]
           /\ \/ table_heap[r].allocated /\ table_heap'[r] # table_heap[r]
              \/ executor[t].plan = "Insert" /\ r \in index_entries' \ index_entries)
             => HoldsExclusive(t, r)]_vars


\* t, not ABORTED, has rid r in a lock set and a request in the queue of r
\* that a lock call of t marked granted when it returned true.
HoldsGranted(t, r, modes) ==
    /\ txn_state[t] # "ABORTED"
    /\ r \in shared_lock_set[t] \cup exclusive_lock_set[t]
    /\ \E i \in 1..Len(lock_table[r]) :
          /\ lock_table[r][i].txn_id = t
          /\ lock_table[r][i].lock_mode \in modes
          /\ lock_table[r][i].granted

\* C36: while a transaction that is not ABORTED holds a rid by a
\* lock_exclusive call that returned true, no other transaction that is not
\* ABORTED holds the rid by a lock_shared or lock_exclusive call that
\* returned true.
C36_ExclusiveIsExclusive ==
    \A r \in Rids : \A t \in Txns : \A u \in Txns \ {t} :
        ~(/\ HoldsGranted(t, r, {"EXCLUSIVE"})
          /\ r \in exclusive_lock_set[t]
          /\ HoldsGranted(u, r, {"SHARED", "EXCLUSIVE"}))


\* C37: no step takes a transaction out of ABORTED, and no lock call of a
\* transaction that is ABORTED returns true.
C37_AbortedStays ==
    [][\A t \in Txns :
          txn_state[t] = "ABORTED" =>
              /\ txn_state'[t] = "ABORTED"
              /\ (thread[t].pc # "idle" /\ thread'[t].pc = "idle") =>
                     lm_ret'[t] # "true"]_vars


\* C38: no step takes a transaction from SHRINKING to GROWING, whatever its
\* isolation level.
C38_ShrinkingStays ==
    [][\A t \in Txns :
          txn_state[t] = "SHRINKING" => txn_state'[t] # "GROWING"]_vars


\* C39: a step of split_insert under the table latch held as writer changes
\* the directory or the set of bucket pages only if the bucket of its key is
\* full at that step.
C39_SplitOnlyIfFull ==
    [][\A c \in HtCalls :
          (/\ c.pc = "SplitInsertBody"
           /\ \/ dir_page' # dir_page
              \/ DOMAIN bucket_pages' # DOMAIN bucket_pages)
             => IsFull(PageOf(KeyToPageId(c.key, dir_page)))]_vars

\* The pool holds the directory page and the bucket pages of h, every one
\* with pin_count 0, and no call so far returned false.
AllUnpinned(p, h) ==
    /\ p.ok
    /\ DOMAIN p.pin_count = DOMAIN h.bucket_pages \cup {DIRECTORY_PAGE_ID}
    /\ \A page_id \in DOMAIN p.pin_count : p.pin_count[page_id] = 0

\* C40: when an index operation has returned and no other is in flight, the
\* directory page and every bucket page have pin_count 0: after the
\* constructor and every insert and remove made so far (splits, the insert
\* that fails at the depth limit and every path of merge included), and again
\* after a get, insert, remove, merge, global_depth or verify_integrity call
\* made from here.
C40_PinsReleased ==
    bucket_array_size > 0 =>
       /\ AllUnpinned(ht_pins, HtNow)
       /\ AllUnpinned(AfterCalls(ht_pins, DirectoryCalls), HtNow)
       /\ \A k \in Keys :
             /\ AllUnpinned(AfterCalls(ht_pins, BucketCalls(HtNow, k)), HtNow)
             /\ \A calls \in {MergeCalls(HtNow, k)} :
                   AllUnpinned(AfterCalls(ht_pins, calls), Merge(HtNow, k))
             /\ \A v \in Values :
                   /\ \A calls \in {InsertCalls(HtNow, k, v)} :
                         AllUnpinned(AfterCalls(ht_pins, calls), Insert(HtNow, k, v).h)
                   /\ \A calls \in {RemoveCalls(HtNow, k, v)} :
                         AllUnpinned(AfterCalls(ht_pins, calls), Remove(HtNow, k, v).h)

\* One-slot buckets: an insert split nine times and failed at the depth
\* limit, a remove then emptied a bucket at local depth 9 and merged it, which
\* deleted its page and halved the directory; every page left is unpinned.
C40_Witness ==
    /\ bucket_array_size = 1
    /\ dir_page.global_depth = MAX_DEPTH - 1
    /\ Cardinality(DOMAIN bucket_pages) = MAX_DEPTH
    /\ AllUnpinned(ht_pins, HtNow)

====
